---- MODULE Spec2Model ----
(***************************************************************************)
(* Model of the world-reward generation / verification pipeline:           *)
(*   - worldreward.verifier.Verifier (verify_dataset, _verify_single,      *)
(*     _parse_verification_response, _compute_reward)                      *)
(*   - worldreward.video_generator.VideoGenerator (generate_from_dataset,  *)
(*     _save_video)                                                        *)
(* Python strings that the code inspects character by character (answers)  *)
(* are sequences of one-character strings; identifiers, paths and messages *)
(* that the code only concatenates or tests for emptiness are strings.     *)
(***************************************************************************)
EXTENDS Integers, Sequences, FiniteSets, TLC

(* ----------------------------- bounds ---------------------------------- *)

\* number of rows of the dataset given to the verifier
NumVerifyScenarios == 2

\* number of rows of the dataset given to the video generator
NumVideoScenarios == 3

\* cap on the iterations of the verifier's processing-wait loop
MaxProcessPolls == 2

\* cap on the ticks of the video generator's polling loop
MaxPollTicks == 2

\* time budget the verifier's processing wait is expected to respect
MAX_VIDEO_PROCESS_SECONDS == 2

\* time budget the video polling loop is expected to respect
MAX_POLL_SECONDS == 10

(* ------------------------- program constants --------------------------- *)

\* time.sleep(2) in the processing-wait loop
PROCESS_POLL_SECONDS == 2

POLL_INTERVAL_SECONDS == 10

(* --------------------------- Python values ----------------------------- *)

\* Python's None
None == "<None>"

\* truthiness of an optional string: None and "" are falsy
Truthy(x) == x # None /\ x # ""

CORRECT == 1
UNDETERMINED == 0
INCORRECT == -1

RewardScore == {CORRECT, UNDETERMINED, INCORRECT}

\* answers as character sequences
YES == <<"y", "e", "s">>
NO == <<"n", "o">>
UNDET == <<"u", "n", "d", "e", "t", "e", "r", "m", "i", "n", "e", "d">>

\* str.lower() on one character
LowerChar(c) ==
    CASE c = "Y" -> "y"
      [] c = "E" -> "e"
      [] c = "S" -> "s"
      [] c = "N" -> "n"
      [] c = "O" -> "o"
      [] c = "U" -> "u"
      [] c = "D" -> "d"
      [] c = "T" -> "t"
      [] c = "R" -> "r"
      [] c = "M" -> "m"
      [] c = "I" -> "i"
      [] c = "A" -> "a"
      [] c = "B" -> "b"
      [] c = "L" -> "l"
      [] c = "H" -> "h"
      [] c = "G" -> "g"
      [] OTHER -> c

\* str.lower()
Lower(s) == [i \in 1..Len(s) |-> LowerChar(s[i])]

IsSpace(c) == c \in {" ", "\n"}

RECURSIVE LStrip(_)
LStrip(s) == IF s # <<>> /\ IsSpace(Head(s)) THEN LStrip(Tail(s)) ELSE s

RECURSIVE RStrip(_)
RStrip(s) ==
    IF s # <<>> /\ IsSpace(s[Len(s)]) THEN RStrip(SubSeq(s, 1, Len(s) - 1)) ELSE s

\* str.strip()
Strip(s) == RStrip(LStrip(s))

(* ----------------------------- exceptions ------------------------------ *)

\* direct base class of an exception type (worldreward/exceptions.py)
BaseOf(t) ==
    CASE t = "VerificationError" -> "WorldRewardError"
      [] t = "VideoGenerationError" -> "WorldRewardError"
      [] t = "WorldRewardError" -> "Exception"
      [] t = "TimeoutError" -> "Exception"
      [] t = "ConfigLoadError" -> "WorldRewardError"
      [] t = "GeminiAPIError" -> "WorldRewardError"
      [] t = "DatasetGenerationError" -> "WorldRewardError"
      [] t = "ParsingError" -> "WorldRewardError"
      [] t = "KeyError" -> "LookupError"
      [] t = "LookupError" -> "Exception"
      [] t = "ValueError" -> "Exception"
      [] t = "JSONDecodeError" -> "ValueError"
      [] t = "AttributeError" -> "Exception"
      [] t = "RuntimeError" -> "Exception"
      [] OTHER -> "object"

RECURSIVE IsSubclass(_, _)
IsSubclass(t, cls) ==
    IF t = cls THEN TRUE
    ELSE IF t = "object" THEN FALSE
    ELSE IsSubclass(BaseOf(t), cls)

\* does "except cls" catch the exception exc
IsInstance(exc, cls) == IsSubclass(exc.type, cls)

\* no exception
NoException == [type |-> None, msg |-> ""]

\* exceptions the remote service calls may raise; str(e) may be empty
RemoteExceptions ==
    { [type |-> "Exception", msg |-> "boom"],
      [type |-> "TimeoutError", msg |-> ""] }

\* VerificationError(scenario_id, reason)
VerificationError(scenario_id, reason) ==
    [type |-> "VerificationError",
     msg |-> "Verification failed for '" \o scenario_id \o "': " \o reason]

\* VideoGenerationError(scenario_id, reason)
VideoGenerationError(scenario_id, reason) ==
    [type |-> "VideoGenerationError",
     msg |-> "Video generation failed for '" \o scenario_id \o "': " \o reason]

(* ------------------------------ dataset -------------------------------- *)

\* scenario ids as the generator formats them for small indexes
ScenarioId(i) == "PS-00" \o ToString(i)

ScenarioIds(n) == { ScenarioId(i) : i \in 1..n }

\* {dir}/{scenario_id}.mp4
VideoPath(dir, scenario_id) == dir \o "/" \o scenario_id \o ".mp4"

\* expected_answer column values a dataset may hold
ExpectedAnswers == { YES, NO, <<"Y", "e", "s">>, <<"N", "O">>, <<"y", "e", "s", " ">> }

VARIABLES
    scenarios,        \* rows of the dataset, in file order
    files,            \* scenario ids whose {dir}/{id}.mp4 exists
    existing,         \* scenario ids whose file existed when the run started
    \* ---- Verifier ----
    v_pc,             \* position in verify_dataset / _verify_single
    v_idx,            \* 1-based index of the scenario being verified
    verify_results,   \* verify_dataset's results list
    video_file,       \* the uploaded file handle (name, state)
    state_name,       \* _verify_single's state_name
    v_elapsed,        \* seconds slept in the processing wait of this call
    v_polls,          \* files.get calls of this call
    v_error,          \* reason of the last error _verify_single raised
    v_raised,         \* exception that left verify_dataset, or None
    uploads,          \* number of files.upload calls
    judge_requests,   \* number of models.generate_content calls
    deleted_names,    \* names passed to files.delete, in call order
    attempted,        \* indexes for which _verify_single was called
    returned_files,   \* file name behind each returned VerificationResult
    failed,           \* indexes whose _verify_single raised
    \* ---- VideoGenerator ----
    vg_pc,            \* position in generate_from_dataset
    idx,              \* 1-based index of the launch loop
    pending,          \* list of _PendingVideo
    video_results,    \* generate_from_dataset's results list
    p_idx,            \* position of the sweep over pending
    poll_ticks,       \* ticks of the polling loop so far
    poll_elapsed,     \* seconds slept in the polling loop
    vg_raised,        \* exception that left generate_from_dataset, or None
    launch_calls,     \* scenario ids passed to generate_videos, in order
    get_calls,        \* scenario ids whose operation was fetched, in order
    download_calls,   \* scenario ids whose video download was requested
    launch_failed,    \* scenario ids whose launch raised
    fetch_raised,     \* scenario ids whose status fetch raised
    save_raised,      \* scenario ids whose download/save raised
    saved,            \* scenario ids whose video was saved in this run
    summary,          \* the "Video generation complete" line, once printed
    tick_open,        \* scenario ids whose operation was not done when the
                      \* current poll tick began
    tick_gets         \* scenario ids fetched in the current poll tick, in order

verifier_vars ==
    <<v_pc, v_idx, verify_results, video_file, state_name, v_elapsed, v_polls,
      v_error, v_raised, uploads, judge_requests, deleted_names, attempted,
      returned_files, failed>>

video_vars ==
    <<vg_pc, idx, pending, video_results, p_idx, poll_ticks, poll_elapsed,
      vg_raised, launch_calls, get_calls, download_calls, launch_failed,
      fetch_raised, save_raised, saved, summary,
      tick_open, tick_gets>>

\* ---- Scorer (print_score_report) ----
VARIABLES
    score_results,    \* the list of VerificationResult given to the scorer
    s_pc,             \* position in print_score_report
    c_idx,            \* position in the sorted categories
    report            \* the summaries printed so far, in print order

scorer_vars == <<score_results, s_pc, c_idx, report>>

\* ---- ScenarioGenerator (generate) ----
VARIABLES
    config_doc,       \* the file at config_path
    g_pc,             \* position in generate
    g_config,         \* config
    raw_scenarios,    \* raw_scenarios
    g_idx,            \* idx of the enumerate in _parse_raw_scenarios
    g_scenarios,      \* the list scenarios built by _parse_raw_scenarios
    g_kept,           \* history: the idx each element of scenarios was built at
    g_written,        \* rows of the CSV written by write_dataset
    g_raised          \* exception that left generate

generator_vars == <<config_doc, g_pc, g_config, raw_scenarios, g_idx,
                    g_scenarios, g_kept, g_written, g_raised>>

\* ---- GeminiClient (generate_scenarios_json) ----
VARIABLES
    api_error,        \* what models.generate_content will raise, if anything
    response_text,    \* response.text, as its lines
    cl_pc,            \* position in generate_scenarios_json
    api_calls,        \* calls of models.generate_content
    cl_result,        \* the value returned
    cl_raised         \* exception that left generate_scenarios_json

client_vars == <<api_error, response_text, cl_pc, api_calls, cl_result,
                 cl_raised>>

\* ---- _parse_verification_response ----
VARIABLES
    jr_response,      \* the judgment response text, by what json.loads makes of it
    jr_pc,            \* position in _parse_verification_response
    jr_answer,        \* the answer returned
    jr_raised         \* exception that left _parse_verification_response

judgment_vars == <<jr_response, jr_pc, jr_answer, jr_raised>>

\* ---- cli.py: run_generate, run_videos, run_verify ----
VARIABLES
    cli_cmd,          \* the command that runs
    cli_env,          \* what the command finds on disk before its pipeline
    cli_pc,           \* position in the command
    cli_out,          \* lines printed so far
    cli_raised,       \* exception the pipeline raised inside the try block
    cli_escaped,      \* exception that left the command
    cli_results_file  \* was the results file written

cli_vars == <<cli_cmd, cli_env, cli_pc, cli_out, cli_raised, cli_escaped,
              cli_results_file>>

\* ---- setup_wizard.py: run_setup_wizard ----
VARIABLES
    w_api_key,        \* the api_key argument
    w_max_attempts,   \* the max_attempts argument
    w_pc,             \* position in run_setup_wizard
    w_attempt,        \* loop variable attempt
    w_candidate,      \* candidate_key
    w_prompts,        \* calls of secret_prompt_fn
    w_validated,      \* validator calls: the key and the verdict
    w_saved,          \* keys handed to save_api_key
    w_return          \* the value returned

wizard_vars == <<w_api_key, w_max_attempts, w_pc, w_attempt, w_candidate,
                 w_prompts, w_validated, w_saved, w_return>>

\* variables of the components that run without the dataset pipeline
offline_vars == <<scorer_vars, generator_vars, client_vars, judgment_vars,
                  cli_vars, wizard_vars>>

vars == <<scenarios, files, existing, verifier_vars, video_vars, offline_vars>>

VIDEOS_DIR == "videos"

\* no file handle yet
NoFile == [name |-> None, state |-> None]

\* an existence check that never finds the file
ExistsNever(scenario_id) == FALSE

\* video_path.exists()
Exists(scenario_id) == scenario_id \in files

\* the scorer before it is given any result
InitScorerVars ==
    /\ score_results = <<>>
    /\ s_pc = "start"
    /\ c_idx = 1
    /\ report = <<>>

\* a missing value: an absent key, or no object
Missing == [t |-> "missing", v |-> <<>>]

\* the generator before generate is called, with no config file
InitGeneratorVars ==
    /\ config_doc = [file |-> "missing", keys |-> {}, categories |-> <<>>]
    /\ g_pc = "start"
    /\ g_config = [domain_id |-> None, id_prefix |-> None,
                   category_names |-> <<>>]
    /\ raw_scenarios = <<>>
    /\ g_idx = 1
    /\ g_scenarios = <<>>
    /\ g_kept = <<>>
    /\ g_written = <<>>
    /\ g_raised = NoException

\* the client before generate_scenarios_json is called
InitClientVars ==
    /\ api_error = NoException
    /\ response_text = <<>>
    /\ cl_pc = "start"
    /\ api_calls = 0
    /\ cl_result = [kind |-> None, text |-> <<>>]
    /\ cl_raised = NoException

\* _parse_verification_response before it is given a response
InitJudgmentVars ==
    /\ jr_response = [kind |-> "invalid"]
    /\ jr_pc = "start"
    /\ jr_answer = <<>>
    /\ jr_raised = NoException

InitCliVars ==
    /\ cli_cmd = "generate"
    /\ cli_env = [config_found |-> FALSE, dataset_exists |-> FALSE,
                  videos_dir_exists |-> FALSE]
    /\ cli_pc = "start"
    /\ cli_out = <<>>
    /\ cli_raised = NoException
    /\ cli_escaped = NoException
    /\ cli_results_file = FALSE

InitWizardVars ==
    /\ w_api_key = [t |-> "null", v |-> <<>>]
    /\ w_max_attempts = 0
    /\ w_pc = "loop"
    /\ w_attempt = 1
    /\ w_candidate = <<>>
    /\ w_prompts = 0
    /\ w_validated = <<>>
    /\ w_saved = <<>>
    /\ w_return = None

\* the offline components at rest
InitOfflineVars ==
    /\ InitScorerVars
    /\ InitGeneratorVars
    /\ InitClientVars
    /\ InitJudgmentVars
    /\ InitCliVars
    /\ InitWizardVars

InitVerifierVars ==
    /\ v_pc = "loop"
    /\ v_idx = 1
    /\ verify_results = <<>>
    /\ video_file = NoFile
    /\ state_name = None
    /\ v_elapsed = 0
    /\ v_polls = 0
    /\ v_error = None
    /\ v_raised = NoException
    /\ uploads = 0
    /\ judge_requests = 0
    /\ deleted_names = <<>>
    /\ attempted = {}
    /\ returned_files = <<>>
    /\ failed = {}

\* the summary line has not been printed
NoSummary == [printed |-> FALSE, successful |-> 0, total |-> 0]

InitVideoVars ==
    /\ vg_pc = "launch"
    /\ idx = 1
    /\ pending = <<>>
    /\ video_results = <<>>
    /\ p_idx = 1
    /\ poll_ticks = 0
    /\ poll_elapsed = 0
    /\ vg_raised = NoException
    /\ launch_calls = <<>>
    /\ get_calls = <<>>
    /\ download_calls = <<>>
    /\ launch_failed = {}
    /\ fetch_raised = {}
    /\ save_raised = {}
    /\ saved = {}
    /\ summary = NoSummary
    /\ tick_open = {}
    /\ tick_gets = <<>>

(* ============================== Verifier =============================== *)

\* file handles files.upload / files.get may return
FileStates == {"PROCESSING", "ACTIVE", "FAILED", None}

\* name the service gives the k-th upload
FileName(k) == "file-" \o ToString(k)

\* answer values of a JSON object: a string, a missing key, or null
RawAnswers ==
    { [t |-> "str", s |-> a] :
        a \in { YES, NO, UNDET, <<"Y", "E", "S", " ">>, <<" ", "N", "o">>,
                <<"m", "a", "y", "b", "e">>, <<>> } }
    \cup { [t |-> "missing"], [t |-> "null"] }

\* response.text of the judgment request, by what json.loads makes of it
Responses ==
    { [kind |-> "empty"], [kind |-> "invalid"], [kind |-> "array"] }
    \cup { [kind |-> "object", answer |-> a] : a \in RawAnswers }

\* _parse_verification_response: the answer, or the exception it raises
ParseVerificationResponse(resp) ==
    IF resp.kind = "invalid"
    THEN [ok |-> FALSE,
          exc |-> VerificationError("unknown", "Invalid JSON from VLM")]
    ELSE IF resp.kind = "array"
    THEN [ok |-> FALSE,
          exc |-> [type |-> "Exception", msg |-> "'list' object has no attribute 'get'"]]
    ELSE IF resp.answer.t = "null"
    THEN [ok |-> FALSE,
          exc |-> [type |-> "Exception", msg |-> "'NoneType' object has no attribute 'lower'"]]
    ELSE LET got == IF resp.answer.t = "missing" THEN UNDET ELSE resp.answer.s
             answer == Strip(Lower(got))
         IN [ok |-> TRUE,
             answer |-> IF answer \notin {YES, NO, UNDET} THEN UNDET ELSE answer]

\* _compute_reward without the lower() of the expected answer
ComputeRewardNoLower(vlm_answer, expected_answer) ==
    IF vlm_answer = UNDET THEN UNDETERMINED
    ELSE IF vlm_answer = expected_answer THEN CORRECT
    ELSE INCORRECT

\* _compute_reward
ComputeReward(vlm_answer, expected_answer) ==
    IF vlm_answer = UNDET THEN UNDETERMINED
    ELSE IF vlm_answer = Lower(expected_answer) THEN CORRECT
    ELSE INCORRECT

\* the exception leaving _verify_single's try block, unwrapped
VerifySingleRaisesUnwrapped(scenario_id, exc) == exc

\* the exception leaving _verify_single's try block for exc raised inside it:
\* "except VerificationError: raise / except Exception as e: raise VerificationError"
VerifySingleRaises(scenario_id, exc) ==
    IF IsInstance(exc, "VerificationError") THEN exc
    ELSE IF IsInstance(exc, "Exception")
    THEN VerificationError(scenario_id, exc.msg)
    ELSE exc

\* a failure handler that keeps an error-state record of the scenario
VerifyFailKeepsRecord(exc, reason) ==
    /\ v_error' = reason
    /\ failed' = failed \cup {v_idx}
    /\ v_pc' = "loop"
    /\ v_idx' = v_idx + 1
    /\ verify_results' = Append(verify_results,
           [scenario_id |-> scenarios[v_idx].scenario_id,
            expected_answer |-> scenarios[v_idx].expected_answer,
            vlm_answer |-> UNDET,
            reward |-> UNDETERMINED,
            video_path |-> VideoPath(VIDEOS_DIR, scenarios[v_idx].scenario_id)])
    /\ UNCHANGED <<v_raised, returned_files, deleted_names>>

\* _verify_single raised exc inside its try block; verify_dataset's
\* "except VerificationError" prints it and goes on with the next scenario
VerifyFail(exc, reason) ==
    LET out == VerifySingleRaises(scenarios[v_idx].scenario_id, exc) IN
    /\ v_error' = reason
    /\ failed' = failed \cup {v_idx}
    /\ IF IsInstance(out, "VerificationError")
       THEN /\ v_pc' = "loop"
            /\ v_idx' = v_idx + 1
            /\ v_raised' = v_raised
       ELSE /\ v_pc' = "raised"
            /\ v_idx' = v_idx
            /\ v_raised' = out
    /\ UNCHANGED <<verify_results, returned_files, deleted_names>>

\* verify_dataset, loop head: the video of the scenario is missing
VerifySkipMissing ==
    /\ v_pc = "loop"
    /\ v_idx <= Len(scenarios)
    /\ ~Exists(scenarios[v_idx].scenario_id)
    /\ v_idx' = v_idx + 1
    /\ UNCHANGED <<failed, v_pc, verify_results, video_file, state_name, v_elapsed,
                   v_polls, v_error, v_raised, uploads, judge_requests,
                   deleted_names, attempted, returned_files>>
    /\ UNCHANGED <<scenarios, files, existing, video_vars, offline_vars>>

\* _verify_single up to the end of files.upload
VerifyUpload ==
    /\ v_pc = "loop"
    /\ v_idx <= Len(scenarios)
    /\ Exists(scenarios[v_idx].scenario_id)
    /\ attempted' = attempted \cup {v_idx}
    /\ uploads' = uploads + 1
    /\ v_elapsed' = 0
    /\ v_polls' = 0
    /\ \/ \E exc \in RemoteExceptions :
            /\ VerifyFail(exc, "upload")
            /\ UNCHANGED <<video_file, state_name>>
       \/ \E name \in {FileName(uploads + 1), None}, st \in FileStates :
            /\ video_file' = [name |-> name, state |-> st]
            /\ state_name' = st
            /\ v_pc' = "wait"
            /\ UNCHANGED <<failed, v_idx, verify_results, v_error, v_raised,
                           returned_files, deleted_names>>
    /\ UNCHANGED judge_requests
    /\ UNCHANGED <<scenarios, files, existing, video_vars, offline_vars>>

\* one iteration of "while state_name == PROCESSING"
VerifyProcessingPoll ==
    /\ v_pc = "wait"
    /\ state_name = "PROCESSING"
    /\ v_polls < MaxProcessPolls
    /\ v_elapsed' = v_elapsed + PROCESS_POLL_SECONDS
    /\ IF ~Truthy(video_file.name)
       THEN /\ VerifyFail(VerificationError(scenarios[v_idx].scenario_id,
                              "Uploaded video has no retrievable file name."),
                          "no_name")
            /\ UNCHANGED <<video_file, state_name, v_polls>>
       ELSE /\ v_polls' = v_polls + 1
            /\ \/ \E exc \in RemoteExceptions :
                    /\ VerifyFail(exc, "get")
                    /\ UNCHANGED <<video_file, state_name>>
               \/ \E st \in FileStates :
                    /\ video_file' = [name |-> video_file.name, state |-> st]
                    /\ state_name' = st
                    /\ UNCHANGED <<failed, v_pc, v_idx, verify_results, v_error,
                                   v_raised, returned_files, deleted_names>>
    /\ UNCHANGED <<uploads, judge_requests, attempted>>
    /\ UNCHANGED <<scenarios, files, existing, video_vars, offline_vars>>

\* a wait that sends the judgment request whatever the final state is
VerifyNotActiveJudges ==
    /\ v_pc = "wait"
    /\ state_name # "PROCESSING"
    /\ state_name # "ACTIVE"
    /\ judge_requests' = judge_requests + 1
    /\ VerifyFail(VerificationError(scenarios[v_idx].scenario_id,
                      "File upload failed"), "state")
    /\ UNCHANGED <<video_file, state_name, v_elapsed, v_polls, uploads,
                   attempted>>
    /\ UNCHANGED <<scenarios, files, existing, video_vars, offline_vars>>

\* the wait ended in a state other than ACTIVE
VerifyNotActive ==
    /\ v_pc = "wait"
    /\ state_name # "PROCESSING"
    /\ state_name # "ACTIVE"
    /\ VerifyFail(VerificationError(scenarios[v_idx].scenario_id,
                      "File upload failed"), "state")
    /\ UNCHANGED <<video_file, state_name, v_elapsed, v_polls, uploads,
                   judge_requests, attempted>>
    /\ UNCHANGED <<scenarios, files, existing, video_vars, offline_vars>>

\* the judgment request and the rest of _verify_single
VerifyJudge ==
    /\ v_pc = "wait"
    /\ state_name = "ACTIVE"
    /\ judge_requests' = judge_requests + 1
    /\ \/ \E exc \in RemoteExceptions : VerifyFail(exc, "judge")
       \/ \E resp \in Responses :
            IF resp.kind = "empty"
            THEN VerifyFail(VerificationError(scenarios[v_idx].scenario_id,
                     "Gemini returned an empty verification response."), "empty")
            ELSE LET parsed == ParseVerificationResponse(resp)
                     scenario == scenarios[v_idx]
                 IN IF ~parsed.ok
                    THEN VerifyFail(parsed.exc, "parse")
                    ELSE /\ verify_results' = Append(verify_results,
                               [scenario_id |-> scenario.scenario_id,
                                expected_answer |-> scenario.expected_answer,
                                vlm_answer |-> parsed.answer,
                                reward |-> ComputeReward(parsed.answer,
                                                         scenario.expected_answer),
                                video_path |-> VideoPath(VIDEOS_DIR,
                                                         scenario.scenario_id)])
                         /\ returned_files' = Append(returned_files, video_file.name)
                         /\ v_pc' = "loop"
                         /\ v_idx' = v_idx + 1
                         /\ UNCHANGED <<failed, v_error, v_raised, deleted_names>>
    /\ UNCHANGED <<video_file, state_name, v_elapsed, v_polls, uploads, attempted>>
    /\ UNCHANGED <<scenarios, files, existing, video_vars, offline_vars>>

\* verify_dataset returns its results
VerifyReturn ==
    /\ v_pc = "loop"
    /\ v_idx > Len(scenarios)
    /\ v_pc' = "done"
    /\ UNCHANGED <<failed, v_idx, verify_results, video_file, state_name, v_elapsed,
                   v_polls, v_error, v_raised, uploads, judge_requests,
                   deleted_names, attempted, returned_files>>
    /\ UNCHANGED <<scenarios, files, existing, video_vars, offline_vars>>

InitVerifier ==
    /\ \E ea \in [1..NumVerifyScenarios -> ExpectedAnswers] :
          scenarios = [i \in 1..NumVerifyScenarios |->
                          [scenario_id |-> ScenarioId(i),
                           video_prompt |-> "a prompt",
                           expected_answer |-> ea[i]]]
    /\ files \in SUBSET ScenarioIds(NumVerifyScenarios)
    /\ existing = files
    /\ InitVerifierVars
    /\ InitVideoVars
    /\ InitOfflineVars

NextVerifier ==
    \/ VerifySkipMissing
    \/ VerifyUpload
    \/ VerifyProcessingPoll
    \/ VerifyNotActive
    \/ VerifyJudge
    \/ VerifyReturn

SpecVerifier == InitVerifier /\ [][NextVerifier]_vars

(* =========================== VideoGenerator ============================ *)

OUTPUT_DIR == "videos"

\* index in pending of the entry of a scenario, 0 when there is none
PendingIndex(scenario_id) ==
    IF \E k \in 1..Len(pending) : pending[k].scenario_id = scenario_id
    THEN CHOOSE k \in 1..Len(pending) : pending[k].scenario_id = scenario_id
    ELSE 0

\* _PendingVideo(scenario_id, operation, output_path)
PendingVideo(scenario_id, operation, output_path) ==
    [scenario_id |-> scenario_id, operation |-> operation,
     output_path |-> output_path, done |-> FALSE, error |-> None]

\* the launch loop's "except Exception" clause that stops launching
LaunchExceptBreaks(exc) ==
    /\ video_results' = Append(video_results,
           [scenario_id |-> scenarios[idx].scenario_id, video_path |-> ""])
    /\ idx' = Len(scenarios) + 1
    /\ UNCHANGED <<vg_pc, vg_raised>>

\* the launch loop's handler for an exception raised by the launch request
LaunchExcept(exc) ==
    IF IsInstance(exc, "Exception")
    THEN /\ video_results' = Append(video_results,
                [scenario_id |-> scenarios[idx].scenario_id, video_path |-> ""])
         /\ idx' = idx + 1
         /\ UNCHANGED <<vg_pc, vg_raised>>
    ELSE /\ vg_pc' = "raised"
         /\ vg_raised' = exc
         /\ UNCHANGED <<video_results, idx>>

\* phase 1: the scenario has no video_prompt
LaunchSkipNoPrompt ==
    /\ vg_pc = "launch"
    /\ idx <= Len(scenarios)
    /\ ~Truthy(scenarios[idx].video_prompt)
    /\ idx' = idx + 1
    /\ UNCHANGED <<vg_pc, pending, video_results, p_idx, poll_ticks,
                   poll_elapsed, vg_raised, launch_calls, get_calls,
                   download_calls, launch_failed, fetch_raised, save_raised,
                   saved>>
    /\ UNCHANGED <<summary, tick_open, tick_gets>>
    /\ UNCHANGED <<scenarios, files, existing, verifier_vars, offline_vars>>

\* the skip of an existing video without its result entry
LaunchSkipExistingSilently ==
    /\ vg_pc = "launch"
    /\ idx <= Len(scenarios)
    /\ Truthy(scenarios[idx].video_prompt)
    /\ Exists(scenarios[idx].scenario_id)
    /\ idx' = idx + 1
    /\ UNCHANGED <<vg_pc, pending, video_results, p_idx, poll_ticks,
                   poll_elapsed, vg_raised, launch_calls, get_calls,
                   download_calls, launch_failed, fetch_raised, save_raised,
                   saved>>
    /\ UNCHANGED <<summary, tick_open, tick_gets>>
    /\ UNCHANGED <<scenarios, files, existing, verifier_vars, offline_vars>>

\* phase 1: the output file of the scenario already exists
LaunchSkipExisting ==
    /\ vg_pc = "launch"
    /\ idx <= Len(scenarios)
    /\ Truthy(scenarios[idx].video_prompt)
    /\ Exists(scenarios[idx].scenario_id)
    /\ video_results' = Append(video_results,
           [scenario_id |-> scenarios[idx].scenario_id,
            video_path |-> VideoPath(OUTPUT_DIR, scenarios[idx].scenario_id)])
    /\ idx' = idx + 1
    /\ UNCHANGED <<vg_pc, pending, p_idx, poll_ticks, poll_elapsed, vg_raised,
                   launch_calls, get_calls, download_calls, launch_failed,
                   fetch_raised, save_raised, saved>>
    /\ UNCHANGED <<summary, tick_open, tick_gets>>
    /\ UNCHANGED <<scenarios, files, existing, verifier_vars, offline_vars>>

\* phase 1: the launch request of the scenario
LaunchOperation ==
    /\ vg_pc = "launch"
    /\ idx <= Len(scenarios)
    /\ Truthy(scenarios[idx].video_prompt)
    /\ ~Exists(scenarios[idx].scenario_id)
    /\ launch_calls' = Append(launch_calls, scenarios[idx].scenario_id)
    /\ \/ /\ pending' = Append(pending,
                PendingVideo(scenarios[idx].scenario_id, [done |-> FALSE],
                             VideoPath(OUTPUT_DIR, scenarios[idx].scenario_id)))
          /\ idx' = idx + 1
          /\ UNCHANGED <<vg_pc, video_results, vg_raised, launch_failed>>
       \/ \E exc \in RemoteExceptions :
             /\ LaunchExcept(exc)
             /\ launch_failed' = launch_failed \cup {scenarios[idx].scenario_id}
             /\ UNCHANGED pending
    /\ UNCHANGED <<p_idx, poll_ticks, poll_elapsed, get_calls, download_calls,
                   fetch_raised, save_raised, saved>>
    /\ UNCHANGED <<summary, tick_open, tick_gets>>
    /\ UNCHANGED <<scenarios, files, existing, verifier_vars, offline_vars>>

\* a launch loop that may be left after its first scenario
LaunchLoopEndEarly ==
    /\ vg_pc = "launch"
    /\ idx > 1
    /\ vg_pc' = IF pending = <<>> THEN "done" ELSE "poll"
    /\ UNCHANGED <<idx, pending, video_results, p_idx, poll_ticks,
                   poll_elapsed, vg_raised, launch_calls, get_calls,
                   download_calls, launch_failed, fetch_raised, save_raised,
                   saved>>
    /\ UNCHANGED <<summary, tick_open, tick_gets>>
    /\ UNCHANGED <<scenarios, files, existing, verifier_vars, offline_vars>>

\* end of phase 1: return when nothing is pending, else start polling
LaunchLoopEnd ==
    /\ vg_pc = "launch"
    /\ idx > Len(scenarios)
    /\ vg_pc' = IF pending = <<>> THEN "done" ELSE "poll"
    /\ UNCHANGED <<idx, pending, video_results, p_idx, poll_ticks,
                   poll_elapsed, vg_raised, launch_calls, get_calls,
                   download_calls, launch_failed, fetch_raised, save_raised,
                   saved>>
    /\ UNCHANGED <<summary, tick_open, tick_gets>>
    /\ UNCHANGED <<scenarios, files, existing, verifier_vars, offline_vars>>

\* phase 2, loop head: some operation is not done; sleep and start a sweep
PollSleep ==
    /\ vg_pc = "poll"
    /\ \E k \in 1..Len(pending) : ~pending[k].done
    /\ poll_ticks < MaxPollTicks
    /\ poll_ticks' = poll_ticks + 1
    /\ poll_elapsed' = poll_elapsed + POLL_INTERVAL_SECONDS
    /\ p_idx' = 1
    /\ vg_pc' = "sweep"
    /\ UNCHANGED <<idx, pending, video_results, vg_raised, launch_calls,
                   get_calls, download_calls, launch_failed, fetch_raised,
                   save_raised, saved>>
    /\ tick_open' = { pending[k].scenario_id :
                         k \in { j \in 1..Len(pending) : ~pending[j].done } }
    /\ tick_gets' = <<>>
    /\ UNCHANGED summary
    /\ UNCHANGED <<scenarios, files, existing, verifier_vars, offline_vars>>

\* a sweep that fetches the operations that are done as well
SweepSkipDoneRefetches ==
    /\ vg_pc = "sweep"
    /\ p_idx <= Len(pending)
    /\ pending[p_idx].done
    /\ p_idx' = p_idx + 1
    /\ get_calls' = Append(get_calls, pending[p_idx].scenario_id)
    /\ UNCHANGED <<vg_pc, idx, pending, video_results, poll_ticks,
                   poll_elapsed, vg_raised, launch_calls,
                   download_calls, launch_failed, fetch_raised, save_raised,
                   saved>>
    /\ UNCHANGED <<summary, tick_open, tick_gets>>
    /\ UNCHANGED <<scenarios, files, existing, verifier_vars, offline_vars>>

\* sweep: "if p.done: continue"
SweepSkipDone ==
    /\ vg_pc = "sweep"
    /\ p_idx <= Len(pending)
    /\ pending[p_idx].done
    /\ p_idx' = p_idx + 1
    /\ UNCHANGED <<vg_pc, idx, pending, video_results, poll_ticks,
                   poll_elapsed, vg_raised, launch_calls, get_calls,
                   download_calls, launch_failed, fetch_raised, save_raised,
                   saved>>
    /\ UNCHANGED <<summary, tick_open, tick_gets>>
    /\ UNCHANGED <<scenarios, files, existing, verifier_vars, offline_vars>>

\* the sweep's "except Exception" clause restricted to the domain errors
PollExceptDomainOnly(p, exc) ==
    IF IsInstance(exc, "WorldRewardError")
    THEN /\ pending' = [pending EXCEPT ![p_idx] = [p EXCEPT !.done = TRUE,
                                                           !.error = exc.msg]]
         /\ p_idx' = p_idx + 1
         /\ UNCHANGED <<vg_pc, vg_raised>>
    ELSE /\ vg_pc' = "raised"
         /\ vg_raised' = exc
         /\ UNCHANGED <<pending, p_idx>>

\* the sweep's handler for an exception raised while p (the current entry,
\* with the assignments made before the raise) was fetched or saved
PollExcept(p, exc) ==
    IF IsInstance(exc, "Exception")
    THEN /\ pending' = [pending EXCEPT ![p_idx] = [p EXCEPT !.done = TRUE,
                                                           !.error = exc.msg]]
         /\ p_idx' = p_idx + 1
         /\ UNCHANGED <<vg_pc, vg_raised>>
    ELSE /\ vg_pc' = "raised"
         /\ vg_raised' = exc
         /\ UNCHANGED <<pending, p_idx>>

\* outcomes of _save_video: saved, or an exception at one of its three calls
SaveOutcomes == {"ok", "response_error", "download_error", "save_error"}

\* sweep: fetch the status of a pending operation, save its video when done
SweepFetch ==
    /\ vg_pc = "sweep"
    /\ p_idx <= Len(pending)
    /\ ~pending[p_idx].done
    /\ get_calls' = Append(get_calls, pending[p_idx].scenario_id)
    /\ LET p == pending[p_idx] IN
       \/ \E exc \in RemoteExceptions :
             /\ PollExcept(p, exc)
             /\ fetch_raised' = fetch_raised \cup {p.scenario_id}
             /\ UNCHANGED <<download_calls, save_raised, saved, files>>
       \/ /\ pending' = [pending EXCEPT ![p_idx].operation = [done |-> FALSE]]
          /\ p_idx' = p_idx + 1
          /\ UNCHANGED <<vg_pc, vg_raised, fetch_raised, download_calls,
                         save_raised, saved, files>>
       \/ \E outcome \in SaveOutcomes :
             LET fetched == [p EXCEPT !.operation = [done |-> TRUE], !.done = TRUE]
             IN
             /\ download_calls' = IF outcome = "response_error"
                                  THEN download_calls
                                  ELSE Append(download_calls, p.scenario_id)
             /\ IF outcome = "ok"
                THEN /\ pending' = [pending EXCEPT ![p_idx] = fetched]
                     /\ p_idx' = p_idx + 1
                     /\ files' = files \cup {p.scenario_id}
                     /\ saved' = saved \cup {p.scenario_id}
                     /\ UNCHANGED <<vg_pc, vg_raised, save_raised>>
                ELSE \E exc \in RemoteExceptions :
                     /\ PollExcept([fetched EXCEPT !.error = exc.msg],
                                   VideoGenerationError(p.scenario_id, exc.msg))
                     /\ save_raised' = save_raised \cup {p.scenario_id}
                     /\ \/ files' = files
                        \/ /\ outcome = "save_error"
                           /\ files' = files \cup {p.scenario_id}
                     /\ UNCHANGED saved
             /\ UNCHANGED fetch_raised
    /\ UNCHANGED <<idx, video_results, poll_ticks, poll_elapsed, launch_calls,
                   launch_failed>>
    /\ tick_gets' = Append(tick_gets, pending[p_idx].scenario_id)
    /\ UNCHANGED <<summary, tick_open>>
    /\ UNCHANGED <<scenarios, existing, verifier_vars, offline_vars>>

\* end of one sweep over pending
SweepEnd ==
    /\ vg_pc = "sweep"
    /\ p_idx > Len(pending)
    /\ vg_pc' = "poll"
    /\ UNCHANGED <<idx, pending, video_results, p_idx, poll_ticks,
                   poll_elapsed, vg_raised, launch_calls, get_calls,
                   download_calls, launch_failed, fetch_raised, save_raised,
                   saved>>
    /\ UNCHANGED <<summary, tick_open, tick_gets>>
    /\ UNCHANGED <<scenarios, files, existing, verifier_vars, offline_vars>>

\* the result entry a pending operation is folded into
CollectResult(p) ==
    IF Truthy(p.error)
    THEN [scenario_id |-> p.scenario_id, video_path |-> ""]
    ELSE [scenario_id |-> p.scenario_id, video_path |-> p.output_path]

\* every operation is done: collect the results and return them
PollExit ==
    /\ vg_pc = "poll"
    /\ \A k \in 1..Len(pending) : pending[k].done
    /\ video_results' = video_results \o
           [k \in 1..Len(pending) |-> CollectResult(pending[k])]
    /\ vg_pc' = "done"
    /\ UNCHANGED <<idx, pending, p_idx, poll_ticks, poll_elapsed, vg_raised,
                   launch_calls, get_calls, download_calls, launch_failed,
                   fetch_raised, save_raised, saved>>
    /\ summary' = [printed |-> TRUE,
                   successful |->
                       Cardinality({ k \in 1..Len(video_results') :
                                       Truthy(video_results'[k].video_path) }),
                   total |-> Len(scenarios)]
    /\ UNCHANGED <<tick_open, tick_gets>>
    /\ UNCHANGED <<scenarios, files, existing, verifier_vars, offline_vars>>

InitVideo ==
    /\ \E vp \in [1..NumVideoScenarios -> {"", "a prompt"}] :
          scenarios = [i \in 1..NumVideoScenarios |->
                          [scenario_id |-> ScenarioId(i),
                           video_prompt |-> vp[i],
                           expected_answer |-> YES]]
    /\ files \in SUBSET ScenarioIds(NumVideoScenarios)
    /\ existing = files
    /\ InitVerifierVars
    /\ InitVideoVars
    /\ InitOfflineVars

NextVideo ==
    \/ LaunchSkipNoPrompt
    \/ LaunchSkipExisting
    \/ LaunchOperation
    \/ LaunchLoopEnd
    \/ PollSleep
    \/ SweepSkipDone
    \/ SweepFetch
    \/ SweepEnd
    \/ PollExit

SpecVideo == InitVideo /\ [][NextVideo]_vars

(* ============================== properties ============================= *)

\* set of the elements of a sequence
Range(seq) == { seq[k] : k \in 1..Len(seq) }

\* number of occurrences of x in a sequence
Count(seq, x) == Cardinality({ k \in 1..Len(seq) : seq[k] = x })

\* the video_path values the result list reports for a scenario
ResultPaths(scenario_id) ==
    { video_results[k].video_path :
        k \in { j \in 1..Len(video_results) :
                  video_results[j].scenario_id = scenario_id } }

\* C1: in every VerificationResult, reward is UNDETERMINED exactly when
\* vlm_answer is "undetermined"; otherwise it is CORRECT exactly when
\* vlm_answer and expected_answer are equal in lowercase, and INCORRECT in
\* every remaining case.
C1_RewardFollowsAnswer ==
    \A k \in 1..Len(verify_results) :
        LET r == verify_results[k] IN
        /\ r.reward \in RewardScore
        /\ (r.reward = UNDETERMINED) <=> (r.vlm_answer = UNDET)
        /\ r.vlm_answer # UNDET =>
              /\ (r.reward = CORRECT) <=>
                    (Lower(r.vlm_answer) = Lower(r.expected_answer))
              /\ (r.reward # CORRECT) => (r.reward = INCORRECT)

\* C1 witness: a CORRECT result whose expected answer is not lowercase, next
\* to an UNDETERMINED one
C1_Witness ==
    /\ \E k \in 1..Len(verify_results) :
          /\ verify_results[k].reward = CORRECT
          /\ verify_results[k].expected_answer # verify_results[k].vlm_answer
    /\ \E k \in 1..Len(verify_results) : verify_results[k].reward = UNDETERMINED

\* C2: once the upload has stayed PROCESSING for the whole time budget, the
\* next step of _verify_single is the timeout: it raises the timeout error,
\* deletes the uploaded file (one files.delete naming it) and issues no
\* judgment request and no further status fetch.
C2_ProcessingTimeoutDeletesUpload ==
    [][ ( /\ v_pc = "wait"
          /\ state_name = "PROCESSING"
          /\ v_elapsed >= MAX_VIDEO_PROCESS_SECONDS )
        => ( /\ v_pc' # "wait"
             /\ v_error' = "timeout"
             /\ judge_requests' = judge_requests
             /\ v_polls' = v_polls
             /\ deleted_names' = Append(deleted_names, video_file.name) ) ]_vars

\* C3: the file behind every returned VerificationResult has been deleted
\* exactly once, by a files.delete call naming it.
C3_UploadDeletedAfterSuccess ==
    \A k \in 1..Len(returned_files) :
        Count(deleted_names, returned_files[k]) = 1

\* C4: once the elapsed polling time has reached the maximum with operations
\* still pending, the next step marks every still-pending operation done with
\* an error and fetches nothing more.
C4_PollingTimesOut ==
    [][ ( /\ vg_pc = "poll"
          /\ poll_elapsed >= MAX_POLL_SECONDS
          /\ \E k \in 1..Len(pending) : ~pending[k].done )
        => ( /\ get_calls' = get_calls
             /\ \A k \in 1..Len(pending) :
                   /\ pending'[k].done
                   /\ ~pending[k].done => Truthy(pending'[k].error) ) ]_vars

\* C5: when the output file of every scenario exists at the start of the run,
\* no launch request, no status fetch and no download is ever issued, and
\* every entry of the returned list has a non-empty video_path.
C5_AllExistingNoRemoteCall ==
    (\A i \in 1..Len(scenarios) : scenarios[i].scenario_id \in existing) =>
        /\ launch_calls = <<>>
        /\ get_calls = <<>>
        /\ download_calls = <<>>
        /\ vg_pc = "done" =>
              \A k \in 1..Len(video_results) : video_results[k].video_path # ""

\* C5 witness: a finished run over a dataset whose files all existed, with a
\* result for every row
C5_Witness ==
    /\ vg_pc = "done"
    /\ \A i \in 1..Len(scenarios) : scenarios[i].scenario_id \in existing
    /\ Len(video_results) = Len(scenarios)

\* C6: a scenario whose launch raised is in the result list with an empty
\* video_path and is not pending, and every scenario the launch loop has
\* passed that has a prompt and no existing file had its launch attempted.
C6_LaunchFailureIsolated ==
    /\ \A id \in launch_failed :
          /\ ResultPaths(id) = {""}
          /\ PendingIndex(id) = 0
    /\ \A i \in 1..Len(scenarios) :
          ( /\ i < idx \/ vg_pc # "launch"
            /\ Truthy(scenarios[i].video_prompt)
            /\ scenarios[i].scenario_id \notin existing )
          => scenarios[i].scenario_id \in Range(launch_calls)

\* C6 witness: the launch of the first scenario raised and a later scenario
\* was launched and is pending
C6_Witness ==
    /\ scenarios[1].scenario_id \in launch_failed
    /\ \E i \in 2..Len(scenarios) : PendingIndex(scenarios[i].scenario_id) # 0

\* C7: an operation whose status fetch raised is done, and the returned list
\* reports its scenario with an empty video_path.
C7_FetchFailureReportedEmpty ==
    \A id \in fetch_raised :
        /\ PendingIndex(id) # 0
        /\ pending[PendingIndex(id)].done
        /\ vg_pc = "done" => ResultPaths(id) = {""}

\* C8: generate_from_dataset never raises, and what it returns is a list of
\* {scenario_id, video_path} entries of scenarios of the dataset.
C8_NeverRaises ==
    /\ vg_pc # "raised"
    /\ vg_raised = NoException
    /\ vg_pc = "done" =>
          \A k \in 1..Len(video_results) :
              \E i \in 1..Len(scenarios) :
                  /\ video_results[k].scenario_id = scenarios[i].scenario_id
                  /\ video_results[k].video_path \in
                        {"", VideoPath(OUTPUT_DIR, scenarios[i].scenario_id)}

\* C8 witness: a run that returned although a launch, a status fetch and a
\* save each raised
C8_Witness ==
    /\ vg_pc = "done"
    /\ launch_failed # {}
    /\ fetch_raised # {}
    /\ save_raised # {}

\* C9: in the returned list every polled operation has its own outcome: an
\* empty video_path when its fetch or its save raised, its output path when
\* its video was saved; and every pending operation was polled until done.
C9_PollFailuresIsolated ==
    vg_pc = "done" =>
        \A k \in 1..Len(pending) :
            LET p == pending[k] IN
            /\ p.done
            /\ p.scenario_id \in (fetch_raised \cup save_raised) =>
                  ResultPaths(p.scenario_id) = {""}
            /\ p.scenario_id \in saved =>
                  ResultPaths(p.scenario_id) = {p.output_path}

\* C10: verify_dataset never raises, the results collected so far are kept,
\* and when it returns every scenario with a video file has been verified,
\* whatever failed before it.
C10_VerifyFailuresIsolated ==
    /\ [](/\ v_pc # "raised"
          /\ v_raised = NoException
          /\ v_pc = "done" =>
                \A i \in 1..Len(scenarios) :
                    Exists(scenarios[i].scenario_id) => i \in attempted)
    /\ [][ /\ Len(verify_results') >= Len(verify_results)
           /\ SubSeq(verify_results', 1, Len(verify_results)) = verify_results
         ]_vars

\* C10 witness: the first scenario failed, the second was verified after it
C10_Witness ==
    /\ v_pc = "done"
    /\ 1 \in attempted
    /\ \A k \in 1..Len(verify_results) :
          verify_results[k].scenario_id # scenarios[1].scenario_id
    /\ \E k \in 1..Len(verify_results) :
          verify_results[k].scenario_id = scenarios[2].scenario_id

\* number of results verify_dataset holds for a scenario
ResultCount(scenario_id) ==
    Cardinality({ k \in 1..Len(verify_results) :
                    verify_results[k].scenario_id = scenario_id })

\* C11: verify_dataset holds at most one result per scenario and none for a
\* scenario whose video is missing or whose verification raised; no upload is
\* issued for a scenario without a video file; when it returns, exactly the
\* scenarios with a video file whose verification did not raise have a result.
C11_OneResultPerVerifiedScenario ==
    /\ uploads = Cardinality(attempted)
    /\ \A i \in 1..Len(scenarios) :
          LET id == scenarios[i].scenario_id IN
          /\ ResultCount(id) <= 1
          /\ i \in failed => ResultCount(id) = 0
          /\ ~Exists(id) => (ResultCount(id) = 0 /\ i \notin attempted)
          /\ v_pc = "done" =>
                ((ResultCount(id) = 1) <=> (Exists(id) /\ i \notin failed))

\* C11 witness: a returned batch with a missing video, one upload and one result
C11_Witness ==
    /\ v_pc = "done"
    /\ \E i \in 1..Len(scenarios) : ~Exists(scenarios[i].scenario_id)
    /\ uploads = 1
    /\ Len(verify_results) = 1

(* =============================== Scorer ================================ *)

\* number of results given to the scorer
MaxResults == 4

\* category names, in the order sorted() gives them
CategoryOrder == <<"cat_a", "cat_b">>

\* the dataset pipeline at rest, with an empty dataset
InitPipelineIdle ==
    /\ scenarios = <<>>
    /\ files = {}
    /\ existing = {}
    /\ InitVerifierVars
    /\ InitVideoVars

\* sum(1 for r in results if r.reward == reward)
RECURSIVE CountReward(_, _)
CountReward(results, reward) ==
    IF results = <<>> THEN 0
    ELSE (IF Head(results).reward = reward THEN 1 ELSE 0)
         + CountReward(Tail(results), reward)

\* sum(r.reward.value for r in results)
RECURSIVE SumRewards(_)
SumRewards(results) ==
    IF results = <<>> THEN 0
    ELSE Head(results).reward + SumRewards(Tail(results))

\* (correct / evaluable * 100) if evaluable > 0 else 0.0, as a fraction
Accuracy(correct, evaluable) ==
    IF evaluable > 0
    THEN [num |-> correct * 100, den |-> evaluable]
    ELSE [num |-> 0, den |-> 1]

\* a ":.0f" that cuts the fraction off
FormatF0Truncates(x) == x.num \div x.den

\* f"{x:.0f}": the nearest integer, a tie going to the even one
FormatF0(x) ==
    LET q == x.num \div x.den
        r == x.num % x.den
    IN IF 2 * r < x.den THEN q
       ELSE IF 2 * r > x.den THEN q + 1
       ELSE IF q % 2 = 0 THEN q ELSE q + 1

\* a category summary whose accuracy is taken over all results of the group
PrintCategoryScoreOverTotal(category, results) ==
    LET correct == CountReward(results, CORRECT)
        incorrect == CountReward(results, INCORRECT)
        undetermined == CountReward(results, UNDETERMINED)
        evaluable == Len(results)
        accuracy == Accuracy(correct, evaluable)
    IN [label |-> category, total |-> Len(results), correct |-> correct,
        incorrect |-> incorrect, undetermined |-> undetermined,
        evaluable |-> evaluable, accuracy |-> accuracy,
        accuracy_pct |-> FormatF0(accuracy),
        total_reward |-> SumRewards(results)]

\* _print_category_score: the numbers it computes and prints
PrintCategoryScore(category, results) ==
    LET correct == CountReward(results, CORRECT)
        incorrect == CountReward(results, INCORRECT)
        undetermined == CountReward(results, UNDETERMINED)
        evaluable == correct + incorrect
        accuracy == Accuracy(correct, evaluable)
    IN [label |-> category, total |-> Len(results), correct |-> correct,
        incorrect |-> incorrect, undetermined |-> undetermined,
        evaluable |-> evaluable, accuracy |-> accuracy,
        accuracy_pct |-> FormatF0(accuracy),
        total_reward |-> SumRewards(results)]

\* _print_overall_score: the numbers it computes and prints
PrintOverallScore(results) ==
    LET correct == CountReward(results, CORRECT)
        incorrect == CountReward(results, INCORRECT)
        undetermined == CountReward(results, UNDETERMINED)
        evaluable == correct + incorrect
        accuracy == Accuracy(correct, evaluable)
    IN [label |-> "OVERALL", total |-> Len(results), correct |-> correct,
        incorrect |-> incorrect, undetermined |-> undetermined,
        evaluable |-> evaluable, accuracy |-> accuracy,
        accuracy_pct |-> FormatF0(accuracy),
        total_reward |-> SumRewards(results)]

\* by_category[category]: the results of the category, in list order
ByCategory(results, category) ==
    SelectSeq(results, LAMBDA r : r.category = category)

\* sorted(by_category.items()): the categories that have results, sorted
SortedCategories(results) ==
    SelectSeq(CategoryOrder,
              LAMBDA c : \E k \in 1..Len(results) : results[k].category = c)

\* print_score_report on an empty list: "No results to report."
ReportNoResults ==
    /\ s_pc = "start"
    /\ score_results = <<>>
    /\ s_pc' = "done"
    /\ UNCHANGED <<score_results, c_idx, report>>
    /\ UNCHANGED <<scenarios, files, existing, verifier_vars, video_vars,
                   generator_vars, client_vars, judgment_vars, cli_vars,
                   wizard_vars>>

\* print_score_report: header and grouping by category
ReportGroup ==
    /\ s_pc = "start"
    /\ score_results # <<>>
    /\ s_pc' = "categories"
    /\ c_idx' = 1
    /\ UNCHANGED <<score_results, report>>
    /\ UNCHANGED <<scenarios, files, existing, verifier_vars, video_vars,
                   generator_vars, client_vars, judgment_vars, cli_vars,
                   wizard_vars>>

\* print_score_report: the summary of the next category
ReportCategory ==
    /\ s_pc = "categories"
    /\ c_idx <= Len(SortedCategories(score_results))
    /\ LET category == SortedCategories(score_results)[c_idx] IN
       report' = Append(report,
           PrintCategoryScore(category, ByCategory(score_results, category)))
    /\ c_idx' = c_idx + 1
    /\ UNCHANGED <<score_results, s_pc>>
    /\ UNCHANGED <<scenarios, files, existing, verifier_vars, video_vars,
                   generator_vars, client_vars, judgment_vars, cli_vars,
                   wizard_vars>>

\* print_score_report: the overall summary
ReportOverall ==
    /\ s_pc = "categories"
    /\ c_idx > Len(SortedCategories(score_results))
    /\ report' = Append(report, PrintOverallScore(score_results))
    /\ s_pc' = "done"
    /\ UNCHANGED <<score_results, c_idx>>
    /\ UNCHANGED <<scenarios, files, existing, verifier_vars, video_vars,
                   generator_vars, client_vars, judgment_vars, cli_vars,
                   wizard_vars>>

InitScorer ==
    /\ score_results \in UNION { [1..n -> [category : Range(CategoryOrder),
                                           reward : RewardScore]] :
                                 n \in 0..MaxResults }
    /\ s_pc = "start"
    /\ c_idx = 1
    /\ report = <<>>
    /\ InitPipelineIdle
    /\ InitGeneratorVars
    /\ InitClientVars
    /\ InitJudgmentVars
    /\ InitCliVars
    /\ InitWizardVars

NextScorer ==
    \/ ReportNoResults
    \/ ReportGroup
    \/ ReportCategory
    \/ ReportOverall

SpecScorer == InitScorer /\ [][NextScorer]_vars

\* indexes of the results of a label's scope that have the given reward
ScopeWith(label, reward) ==
    { k \in 1..Len(score_results) :
        /\ score_results[k].reward = reward
        /\ label = "OVERALL" \/ score_results[k].category = label }

\* the overall summary of a finished report
Overall == report[Len(report)]

\* sum of a field over the category summaries of a finished report
RECURSIVE CategorySum(_, _)
CategorySum(k, field) ==
    IF k = 0 THEN 0
    ELSE (CASE field = "correct" -> report[k].correct
            [] field = "incorrect" -> report[k].incorrect
            [] field = "undetermined" -> report[k].undetermined)
         + CategorySum(k - 1, field)

\* the list holds 2 CORRECT, 1 INCORRECT and 1 UNDETERMINED result
TwoOneOne ==
    /\ Cardinality(ScopeWith("OVERALL", CORRECT)) = 2
    /\ Cardinality(ScopeWith("OVERALL", INCORRECT)) = 1
    /\ Cardinality(ScopeWith("OVERALL", UNDETERMINED)) = 1

\* C12 as stated: for 2 CORRECT, 1 INCORRECT and 1 UNDETERMINED the report
\* has evaluable = 3, prints the accuracy 66 and total_reward = 1.
C12_AccuracyPrintedAs66 ==
    (s_pc = "done" /\ TwoOneOne) =>
        /\ Overall.evaluable = 3
        /\ Overall.accuracy_pct = 66
        /\ Overall.total_reward = 1

\* C12 amended: for 2 CORRECT, 1 INCORRECT and 1 UNDETERMINED the report has
\* evaluable = 3, prints the accuracy 67 (66.67 rounded to the nearest
\* integer) and total_reward = 1.
C12_AccuracyPrintedAs67 ==
    (s_pc = "done" /\ TwoOneOne) =>
        /\ Overall.evaluable = 3
        /\ Overall.accuracy_pct = 67
        /\ Overall.total_reward = 1

\* C12 witness: a finished report over such a list
C12_Witness ==
    /\ s_pc = "done"
    /\ TwoOneOne
    /\ Overall.label = "OVERALL"

\* C13: in every printed summary (each category and the whole list) the
\* counts are those of its results, accuracy * (CORRECT + INCORRECT) equals
\* 100 * CORRECT, accuracy is 0 when CORRECT + INCORRECT = 0, total_reward is
\* CORRECT - INCORRECT; in a finished report the category counts add up to
\* the overall counts.
C13_ScoresAggregate ==
    /\ \A k \in 1..Len(report) :
          LET r == report[k]
              c == Cardinality(ScopeWith(r.label, CORRECT))
              i == Cardinality(ScopeWith(r.label, INCORRECT))
              u == Cardinality(ScopeWith(r.label, UNDETERMINED))
          IN /\ r.correct = c /\ r.incorrect = i /\ r.undetermined = u
             /\ r.total = c + i + u
             /\ r.accuracy.den > 0
             /\ IF c + i > 0
                THEN r.accuracy.num * (c + i) = 100 * c * r.accuracy.den
                ELSE r.accuracy.num = 0 /\ r.accuracy_pct = 0
             /\ r.total_reward = c - i
    /\ (s_pc = "done" /\ report # <<>>) =>
          /\ CategorySum(Len(report) - 1, "correct") = Overall.correct
          /\ CategorySum(Len(report) - 1, "incorrect") = Overall.incorrect
          /\ CategorySum(Len(report) - 1, "undetermined") = Overall.undetermined

\* C13 witness: a finished report with two categories, one of them holding
\* only UNDETERMINED results, and an UNDETERMINED result next to evaluable ones
C13_Witness ==
    /\ s_pc = "done"
    /\ Len(report) = 3
    /\ \E k \in 1..2 : report[k].evaluable = 0 /\ report[k].undetermined > 0
    /\ \E k \in 1..2 : report[k].evaluable > 0 /\ report[k].undetermined > 0

(* ========================== Domain config loader ======================== *)

\* a JSON/YAML string value; strings are sequences of characters
Str(s) == [t |-> "str", v |-> s]

\* a JSON/YAML null
Null == [t |-> "null", v |-> <<>>]

CONFIG_PATH == "configs/autonomous_driving.yaml"

\* _REQUIRED_FIELDS, in the order they are checked
REQUIRED_FIELDS ==
    <<"domain_id", "domain_name", "description", "context_prompt",
      "categories", "id_prefix">>

GRAVITY == <<"g", "r", "a", "v", "i", "t", "y">>
COLLISION == <<"c", "o", "l", "l", "i", "s", "i", "o", "n">>
WEATHER == <<"w", "e", "a", "t", "h", "e", "r">>

\* the lists of category entries a config document may hold
CategoryLists ==
    { <<>>,
      <<[name |-> Str(GRAVITY)]>>,
      <<[name |-> Str(GRAVITY)], [name |-> Str(COLLISION)]>>,
      <<[name |-> Missing]>>,
      <<[name |-> Str(GRAVITY)], [name |-> Missing]>> }

\* the files load_domain_config may be pointed at
ConfigDocs ==
    { [file |-> f, keys |-> {}, categories |-> <<>>] :
        f \in {"missing", "invalid_yaml", "not_mapping"} }
    \cup
    UNION { { [file |-> "mapping", keys |-> ks, categories |-> cats] :
                cats \in IF "categories" \in ks THEN CategoryLists
                                                ELSE {<<>>} } :
            ks \in SUBSET Range(REQUIRED_FIELDS) }

\* ConfigLoadError(config_path, reason)
ConfigLoadError(config_path, reason) ==
    [type |-> "ConfigLoadError",
     msg |-> "Failed to load config '" \o config_path \o "': " \o reason]

\* _validate_required_fields: the exception it raises, if any
ValidateRequiredFields(keys) ==
    IF \E i \in 1..Len(REQUIRED_FIELDS) : REQUIRED_FIELDS[i] \notin keys
    THEN LET i == CHOOSE i \in 1..Len(REQUIRED_FIELDS) :
                     /\ REQUIRED_FIELDS[i] \notin keys
                     /\ \A j \in 1..(i - 1) : REQUIRED_FIELDS[j] \in keys
         IN ConfigLoadError(CONFIG_PATH,
                "Missing required field: '" \o REQUIRED_FIELDS[i] \o "'")
    ELSE NoException

\* no DomainConfig
NoConfig == [domain_id |-> None, id_prefix |-> None, category_names |-> <<>>]

\* load_domain_config: the exception it raises, or the DomainConfig it returns
LoadDomainConfig(doc) ==
    IF doc.file = "missing"
    THEN [raised |-> ConfigLoadError(CONFIG_PATH, "File not found"),
          config |-> NoConfig]
    ELSE IF doc.file = "invalid_yaml"
    THEN [raised |-> ConfigLoadError(CONFIG_PATH, "Invalid YAML: scan error"),
          config |-> NoConfig]
    ELSE IF doc.file # "mapping"
    THEN [raised |-> ConfigLoadError(CONFIG_PATH,
                                     "YAML root must be a mapping/object"),
          config |-> NoConfig]
    ELSE IF ValidateRequiredFields(doc.keys) # NoException
    THEN [raised |-> ValidateRequiredFields(doc.keys), config |-> NoConfig]
    ELSE IF \E k \in 1..Len(doc.categories) : doc.categories[k].name = Missing
    THEN [raised |-> [type |-> "KeyError", msg |-> "'name'"],
          config |-> NoConfig]
    ELSE [raised |-> NoException,
          config |-> [domain_id |-> "autonomous_driving",
                      id_prefix |-> "AD",
                      category_names |->
                          [k \in 1..Len(doc.categories) |->
                              doc.categories[k].name.v]]]

(* =========================== ScenarioGenerator ========================= *)

\* length of the raw lists drawn over every kind of record
MaxRaw == 2

\* length of the long raw lists, drawn over valid records and records
\* without world_prompt
LongRawLen == 10

HIGH == <<"h", "i", "g", "h">>
MEDIUM == <<"m", "e", "d", "i", "u", "m">>
LOW == <<"l", "o", "w">>

\* the values of the Confidence enum
ConfidenceValues == {HIGH, MEDIUM, LOW}

\* a raw record that has every key, well-formed
ValidRecord ==
    [category |-> Str(GRAVITY),
     world_prompt |-> Str(<<"w">>),
     action |-> Str(<<"a">>),
     verification_question |-> Str(<<"q">>),
     expected_answer |-> Str(YES),
     confidence |-> Str(HIGH),
     video_prompt |-> Str(<<"v">>)]

\* a raw record without world_prompt
NoWorldPromptRecord == [ValidRecord EXCEPT !.world_prompt = Missing]

\* the records the model may return: ValidRecord with one value replaced
RawRecords ==
    {ValidRecord, NoWorldPromptRecord}
    \cup { [ValidRecord EXCEPT !.category = x] :
             x \in {Str(COLLISION), Str(WEATHER), Missing} }
    \cup { [ValidRecord EXCEPT !.action = x] : x \in {Missing} }
    \cup { [ValidRecord EXCEPT !.verification_question = x] : x \in {Missing} }
    \cup { [ValidRecord EXCEPT !.expected_answer = x] :
             x \in {Str(NO), Str(<<"Y", "e", "s">>), Str(<<"N", "O">>),
                    Str(<<"m", "a", "y", "b", "e">>), Missing, Null} }
    \cup { [ValidRecord EXCEPT !.confidence = x] :
             x \in {Str(<<"L", "o", "w">>), Str(MEDIUM),
                    Str(<<"b", "o", "g", "u", "s">>), Missing, Null} }
    \cup { [ValidRecord EXCEPT !.video_prompt = x] : x \in {Missing} }

\* the lists generate_scenarios_json may return
RawLists ==
    UNION { [1..n -> RawRecords] : n \in 0..MaxRaw }
    \cup [1..LongRawLen -> {ValidRecord, NoWorldPromptRecord}]

\* exceptions generate_scenarios_json may raise
ClientExceptions ==
    { [type |-> "GeminiAPIError", msg |-> "Gemini API error: quota"],
      [type |-> "ParsingError",
       msg |-> "Failed to parse Gemini response: Empty response body from Gemini"],
      [type |-> "RuntimeError", msg |-> ""] }

\* DatasetGenerationError(domain, reason)
DatasetGenerationError(domain, reason) ==
    [type |-> "DatasetGenerationError",
     msg |-> "Generation failed for domain '" \o domain \o "': " \o reason]

\* f"{idx:03d}"
Pad3(i) ==
    IF i < 10 THEN "00" \o ToString(i)
    ELSE IF i < 100 THEN "0" \o ToString(i)
    ELSE ToString(i)

\* a scenario id without the zero padding
FormatScenarioIdUnpadded(id_prefix, i) == id_prefix \o "-" \o ToString(i)

\* f"{config.id_prefix}-{idx:03d}"
FormatScenarioId(id_prefix, i) == id_prefix \o "-" \o Pad3(i)

\* raw[key] raises KeyError when the key is absent
KeyErrorOf(key) == [type |-> "KeyError", msg |-> "'" \o key \o "'"]

\* x.lower() on a value that is not a string
LowerAttributeError ==
    [type |-> "AttributeError",
     msg |-> "'NoneType' object has no attribute 'lower'"]

\* raw.get("confidence", "medium")
GetConfidence(raw) ==
    IF raw.confidence = Missing THEN Str(MEDIUM) ELSE raw.confidence

\* raw.get("video_prompt", "")
GetVideoPrompt(raw) ==
    IF raw.video_prompt = Missing THEN Str(<<>>) ELSE raw.video_prompt

\* the exception the construction of the Scenario raises, if any: the
\* arguments are evaluated in the order they are written
ScenarioRaises(raw) ==
    IF raw.category = Missing THEN KeyErrorOf("category")
    ELSE IF raw.world_prompt = Missing THEN KeyErrorOf("world_prompt")
    ELSE IF raw.action = Missing THEN KeyErrorOf("action")
    ELSE IF raw.verification_question = Missing
    THEN KeyErrorOf("verification_question")
    ELSE IF raw.expected_answer = Missing THEN KeyErrorOf("expected_answer")
    ELSE IF raw.expected_answer.t # "str" THEN LowerAttributeError
    ELSE IF GetConfidence(raw).t # "str" THEN LowerAttributeError
    ELSE IF Lower(GetConfidence(raw).v) \notin ConfidenceValues
    THEN [type |-> "ValueError", msg |-> "not a valid Confidence"]
    ELSE NoException

\* the Scenario built from a raw record at position i
MakeScenario(id_prefix, i, raw) ==
    [scenario_id |-> FormatScenarioId(id_prefix, i),
     category |-> raw.category.v,
     world_prompt |-> raw.world_prompt.v,
     action |-> raw.action.v,
     verification_question |-> raw.verification_question.v,
     expected_answer |-> Lower(raw.expected_answer.v),
     confidence |-> Lower(GetConfidence(raw).v),
     video_prompt |-> GetVideoPrompt(raw).v]

\* generate: load_domain_config returns the config
LoadConfig ==
    /\ g_pc = "start"
    /\ LoadDomainConfig(config_doc).raised = NoException
    /\ g_config' = LoadDomainConfig(config_doc).config
    /\ g_pc' = "call"
    /\ UNCHANGED <<config_doc, raw_scenarios, g_idx, g_scenarios, g_kept,
                   g_written, g_raised>>
    /\ UNCHANGED <<scenarios, files, existing, verifier_vars, video_vars,
                   scorer_vars, client_vars, judgment_vars, cli_vars,
                   wizard_vars>>

\* generate: load_domain_config raises, outside any try
LoadConfigRaises ==
    /\ g_pc = "start"
    /\ LoadDomainConfig(config_doc).raised # NoException
    /\ g_raised' = LoadDomainConfig(config_doc).raised
    /\ g_pc' = "raised"
    /\ UNCHANGED <<config_doc, g_config, raw_scenarios, g_idx, g_scenarios,
                   g_kept, g_written>>
    /\ UNCHANGED <<scenarios, files, existing, verifier_vars, video_vars,
                   scorer_vars, client_vars, judgment_vars, cli_vars,
                   wizard_vars>>

\* generate: generate_scenarios_json returns the raw list
CallClient ==
    /\ g_pc = "call"
    /\ \E value \in RawLists : raw_scenarios' = value
    /\ g_idx' = 1
    /\ g_pc' = "parse"
    /\ UNCHANGED <<config_doc, g_config, g_scenarios, g_kept, g_written,
                   g_raised>>
    /\ UNCHANGED <<scenarios, files, existing, verifier_vars, video_vars,
                   scorer_vars, client_vars, judgment_vars, cli_vars,
                   wizard_vars>>

\* generate: generate_scenarios_json raises, "except Exception" wraps it
CallClientRaises ==
    /\ g_pc = "call"
    /\ \E e \in ClientExceptions :
          g_raised' = IF IsInstance(e, "Exception")
                      THEN DatasetGenerationError(g_config.domain_id, e.msg)
                      ELSE e
    /\ g_pc' = "raised"
    /\ UNCHANGED <<config_doc, g_config, raw_scenarios, g_idx, g_scenarios,
                   g_kept, g_written>>
    /\ UNCHANGED <<scenarios, files, existing, verifier_vars, video_vars,
                   scorer_vars, client_vars, judgment_vars, cli_vars,
                   wizard_vars>>

\* _parse_raw_scenarios: the record at idx becomes a Scenario
ParseAppend ==
    /\ g_pc = "parse"
    /\ g_idx <= Len(raw_scenarios)
    /\ ScenarioRaises(raw_scenarios[g_idx]) = NoException
    /\ g_scenarios' = Append(g_scenarios,
           MakeScenario(g_config.id_prefix, g_idx, raw_scenarios[g_idx]))
    /\ g_kept' = Append(g_kept, g_idx)
    /\ g_idx' = g_idx + 1
    /\ UNCHANGED <<config_doc, g_pc, g_config, raw_scenarios, g_written,
                   g_raised>>
    /\ UNCHANGED <<scenarios, files, existing, verifier_vars, video_vars,
                   scorer_vars, client_vars, judgment_vars, cli_vars,
                   wizard_vars>>

\* _parse_raw_scenarios: "except (KeyError, ValueError)" skips the record
ParseSkip ==
    /\ g_pc = "parse"
    /\ g_idx <= Len(raw_scenarios)
    /\ LET e == ScenarioRaises(raw_scenarios[g_idx]) IN
       /\ e # NoException
       /\ IsInstance(e, "KeyError") \/ IsInstance(e, "ValueError")
    /\ g_idx' = g_idx + 1
    /\ UNCHANGED <<config_doc, g_pc, g_config, raw_scenarios, g_scenarios,
                   g_kept, g_written, g_raised>>
    /\ UNCHANGED <<scenarios, files, existing, verifier_vars, video_vars,
                   scorer_vars, client_vars, judgment_vars, cli_vars,
                   wizard_vars>>

\* _parse_raw_scenarios: any other exception leaves the loop and generate
ParseRaises ==
    /\ g_pc = "parse"
    /\ g_idx <= Len(raw_scenarios)
    /\ LET e == ScenarioRaises(raw_scenarios[g_idx]) IN
       /\ e # NoException
       /\ ~(IsInstance(e, "KeyError") \/ IsInstance(e, "ValueError"))
       /\ g_raised' = e
    /\ g_pc' = "raised"
    /\ UNCHANGED <<config_doc, g_config, raw_scenarios, g_idx, g_scenarios,
                   g_kept, g_written>>
    /\ UNCHANGED <<scenarios, files, existing, verifier_vars, video_vars,
                   scorer_vars, client_vars, judgment_vars, cli_vars,
                   wizard_vars>>

\* _parse_raw_scenarios returns; generate writes the dataset and returns
WriteDataset ==
    /\ g_pc = "parse"
    /\ g_idx > Len(raw_scenarios)
    /\ g_written' = g_scenarios
    /\ g_pc' = "done"
    /\ UNCHANGED <<config_doc, g_config, raw_scenarios, g_idx, g_scenarios,
                   g_kept, g_raised>>
    /\ UNCHANGED <<scenarios, files, existing, verifier_vars, video_vars,
                   scorer_vars, client_vars, judgment_vars, cli_vars,
                   wizard_vars>>

InitGenerator ==
    /\ config_doc \in ConfigDocs
    /\ g_pc = "start"
    /\ g_config = NoConfig
    /\ raw_scenarios = <<>>
    /\ g_idx = 1
    /\ g_scenarios = <<>>
    /\ g_kept = <<>>
    /\ g_written = <<>>
    /\ g_raised = NoException
    /\ InitPipelineIdle
    /\ InitScorerVars
    /\ InitClientVars
    /\ InitJudgmentVars
    /\ InitCliVars
    /\ InitWizardVars

NextGenerator ==
    \/ LoadConfig
    \/ LoadConfigRaises
    \/ CallClient
    \/ CallClientRaises
    \/ ParseAppend
    \/ ParseSkip
    \/ ParseRaises
    \/ WriteDataset

SpecGenerator == InitGenerator /\ [][NextGenerator]_vars

\* the positions of the raw list before idx that were skipped
SkippedBefore(i) == { j \in 1..(i - 1) : j \notin Range(g_kept) }

\* C14 as stated: the k-th scenario of the validated output has the id
\* id_prefix, a hyphen and k zero-padded to three digits, whatever the raw
\* list; with the prefix "AD" the first is AD-001 and the tenth AD-010.
C14_IdFromValidatedPosition ==
    \A k \in 1..Len(g_scenarios) :
        /\ g_scenarios[k].scenario_id = g_config.id_prefix \o "-" \o Pad3(k)
        /\ (g_config.id_prefix = "AD" /\ k = 1) =>
               g_scenarios[k].scenario_id = "AD-001"
        /\ (g_config.id_prefix = "AD" /\ k = 10) =>
               g_scenarios[k].scenario_id = "AD-010"

\* C14 amended: a validated scenario has the id id_prefix, a hyphen and the
\* 1-based position of its record in the raw list, zero-padded to three
\* digits; that position is the position in the validated output exactly
\* when no earlier record was dropped.  With the prefix "AD" the scenario of
\* the first raw record is AD-001 and that of the tenth is AD-010.
C14_IdFromRawPosition ==
    \A k \in 1..Len(g_scenarios) :
        LET i == g_kept[k] IN
        /\ g_scenarios[k].scenario_id = g_config.id_prefix \o "-" \o Pad3(i)
        /\ i = k + Cardinality(SkippedBefore(i))
        /\ (g_config.id_prefix = "AD" /\ i = 1) =>
               g_scenarios[k].scenario_id = "AD-001"
        /\ (g_config.id_prefix = "AD" /\ i = 10) =>
               g_scenarios[k].scenario_id = "AD-010"

\* C14 witness: a finished run that dropped a record before a valid one and
\* reached the tenth raw record
C14_Witness ==
    /\ g_pc = "done"
    /\ Len(g_scenarios) >= 1
    /\ Len(g_scenarios) < 10
    /\ g_kept[Len(g_kept)] = 10
    /\ g_scenarios[Len(g_scenarios)].scenario_id = "AD-010"

\* a raw record that has the five required keys and a confidence that is
\* absent or names a Confidence value
WellFormed(raw) ==
    /\ \A x \in {raw.category, raw.world_prompt, raw.action,
                 raw.verification_question, raw.expected_answer} :
          x.t = "str"
    /\ \/ raw.confidence = Missing
       \/ /\ raw.confidence.t = "str"
          /\ Lower(raw.confidence.v) \in {HIGH, MEDIUM, LOW}

\* a raw record that misses a required key or whose confidence value does
\* not name a Confidence value
Malformed(raw) ==
    \/ \E x \in {raw.category, raw.world_prompt, raw.action,
                 raw.verification_question, raw.expected_answer} :
          x = Missing
    \/ /\ raw.confidence # Missing
       /\ \/ raw.confidence.t # "str"
          \/ Lower(raw.confidence.v) \notin {HIGH, MEDIUM, LOW}

\* _parse_raw_scenarios has returned or raised
ParseEnded ==
    /\ g_pc \in {"done", "raised"}
    /\ raw_scenarios # <<>>

\* C15: every Scenario built by _parse_raw_scenarios, and every row written,
\* has expected_answer "yes" or "no" in lowercase.
C15_ExpectedAnswerYesOrNo ==
    /\ \A k \in 1..Len(g_scenarios) :
          g_scenarios[k].expected_answer \in {YES, NO}
    /\ \A k \in 1..Len(g_written) :
          g_written[k].expected_answer \in {YES, NO}

\* C16: when the raw list holds exactly one record that misses a required
\* key or has an unparseable confidence, and the others are well-formed,
\* the parse succeeds, the output is one shorter than the input, and every
\* well-formed record is in the output.
C16_MalformedRecordDropped ==
    LET bad == { i \in 1..Len(raw_scenarios) : Malformed(raw_scenarios[i]) }
        good == { i \in 1..Len(raw_scenarios) : WellFormed(raw_scenarios[i]) }
    IN (/\ ParseEnded
        /\ Cardinality(bad) = 1
        /\ bad \cup good = 1..Len(raw_scenarios)) =>
           /\ g_pc = "done"
           /\ Len(g_scenarios) = Len(raw_scenarios) - 1
           /\ \A i \in good : \E k \in 1..Len(g_scenarios) :
                 /\ g_kept[k] = i
                 /\ g_scenarios[k].world_prompt = raw_scenarios[i].world_prompt.v
                 /\ g_scenarios[k].category = raw_scenarios[i].category.v

\* C17: every Scenario built by _parse_raw_scenarios has a category that is
\* one of config.category_names.
C17_CategoryDeclared ==
    \A k \in 1..Len(g_scenarios) :
        g_scenarios[k].category \in Range(g_config.category_names)

\* C18: generate fails only with DatasetGenerationError, also when loading
\* the domain config fails or the client raises.
C18_OnlyDatasetGenerationError ==
    g_pc = "raised" => g_raised.type = "DatasetGenerationError"

\* C19: for a config document that is a mapping, a missing required key
\* makes load_domain_config raise ConfigLoadError naming a missing field, a
\* DomainConfig is returned only when all six keys are present, and a
\* category entry without name is reported as ConfigLoadError too.
C19_MissingFieldIsConfigLoadError ==
    (g_pc # "start" /\ config_doc.file = "mapping") =>
        LET absent == Range(REQUIRED_FIELDS) \ config_doc.keys IN
        /\ absent # {} =>
              /\ g_pc = "raised"
              /\ g_raised.type = "ConfigLoadError"
              /\ \E f \in absent :
                    g_raised.msg = "Failed to load config '" \o CONFIG_PATH
                        \o "': Missing required field: '" \o f \o "'"
        /\ g_config # NoConfig => absent = {}
        /\ (\E k \in 1..Len(config_doc.categories) :
                config_doc.categories[k].name = Missing) =>
              /\ g_pc = "raised"
              /\ g_raised.type = "ConfigLoadError"

(* ============================= GeminiClient ============================= *)

\* length of the body of a response text, in symbols
MaxBody == 3

\* the code-fence marker, three backticks, as one symbol
FENCE == "<fence>"

\* the symbols a response body is written with: JSON punctuation, one value
\* of each scalar type and an empty object, white space, a fence, and a
\* symbol that is not JSON
BodySymbols ==
    {"[", "]", ",", "{}", "\"s\"", "-1", "null", " ", "\n", FENCE, "x"}

\* what may precede the body: nothing or an opening fence line
Prefixes ==
    { <<>>,
      <<FENCE, "\n">>,
      <<FENCE, "json", "\n">>,
      <<"\n", " ", FENCE, "json", "\n">>,
      <<FENCE, "json", " ">> }

\* what may follow the body: nothing or a closing fence
Suffixes ==
    { <<>>,
      <<"\n", FENCE>>,
      <<"\n", " ", FENCE, " ", "\n">>,
      <<FENCE>> }

\* the values response.text may have
ResponseTexts ==
    { p \o b \o s :
        p \in Prefixes,
        b \in UNION { [1..n -> BodySymbols] : n \in 0..MaxBody },
        s \in Suffixes }

\* GeminiAPIError(message)
GeminiAPIError(message) ==
    [type |-> "GeminiAPIError", msg |-> "Gemini API error: " \o message]

\* ParsingError(reason)
ParsingError(reason) ==
    [type |-> "ParsingError",
     msg |-> "Failed to parse Gemini response: " \o reason]

\* no value returned
NoValue == [kind |-> None, text |-> <<>>]

\* str.split("\n")
RECURSIVE Split(_)
Split(s) ==
    IF \E i \in 1..Len(s) : s[i] = "\n"
    THEN LET i == CHOOSE i \in 1..Len(s) :
                     /\ s[i] = "\n"
                     /\ \A j \in 1..(i - 1) : s[j] # "\n"
         IN <<SubSeq(s, 1, i - 1)>> \o Split(SubSeq(s, i + 1, Len(s)))
    ELSE <<s>>

\* "\n".join(lines)
RECURSIVE Join(_)
Join(lines) ==
    IF lines = <<>> THEN <<>>
    ELSE IF Len(lines) = 1 THEN lines[1]
    ELSE lines[1] \o <<"\n">> \o Join(Tail(lines))

\* cleaned.startswith(fence)
StartsWithFence(s) == s # <<>> /\ s[1] = FENCE

\* a fence removal that drops the opening line only
StripFencesKeepsClosing(text) ==
    LET cleaned == Strip(text) IN
    IF StartsWithFence(cleaned)
    THEN Join(Tail(Split(cleaned)))
    ELSE cleaned

\* the code-fence removal of _parse_json_response
StripFences(text) ==
    LET cleaned == Strip(text) IN
    IF StartsWithFence(cleaned)
    THEN Join(SelectSeq(Tail(Split(cleaned)),
                        LAMBDA line : Strip(line) # <<FENCE>>))
    ELSE cleaned

\* the JSON tokens of a text: white space separates and is dropped
Lex(s) == SelectSeq(s, LAMBDA c : ~IsSpace(c))

\* the tokens that are a complete JSON value
JsonAtoms == {"{}", "\"s\"", "-1", "null"}

RECURSIVE ParseValue(_)
RECURSIVE ParseRest(_)

\* reads one JSON value from the front of the tokens
ParseValue(ts) ==
    IF ts = <<>> THEN [ok |-> FALSE, rest |-> <<>>]
    ELSE IF Head(ts) \in JsonAtoms THEN [ok |-> TRUE, rest |-> Tail(ts)]
    ELSE IF Head(ts) = "["
    THEN IF Len(ts) >= 2 /\ ts[2] = "]"
         THEN [ok |-> TRUE, rest |-> SubSeq(ts, 3, Len(ts))]
         ELSE LET v == ParseValue(Tail(ts)) IN
              IF v.ok THEN ParseRest(v.rest)
              ELSE [ok |-> FALSE, rest |-> <<>>]
    ELSE [ok |-> FALSE, rest |-> <<>>]

\* reads the rest of an array after one of its values
ParseRest(ts) ==
    IF ts = <<>> THEN [ok |-> FALSE, rest |-> <<>>]
    ELSE IF Head(ts) = "]" THEN [ok |-> TRUE, rest |-> Tail(ts)]
    ELSE IF Head(ts) = ","
    THEN LET v == ParseValue(Tail(ts)) IN
         IF v.ok THEN ParseRest(v.rest)
         ELSE [ok |-> FALSE, rest |-> <<>>]
    ELSE [ok |-> FALSE, rest |-> <<>>]

\* type(parsed).__name__ of the value a token starts
TypeName(token) ==
    CASE token = "[" -> "list"
      [] token = "{}" -> "dict"
      [] token = "\"s\"" -> "str"
      [] token = "-1" -> "int"
      [] token = "null" -> "NoneType"

\* json.loads: the value, by its type and its tokens, or "invalid" for a
\* JSONDecodeError
JsonLoads(s) ==
    LET ts == Lex(s)
        r == ParseValue(ts)
    IN IF r.ok /\ r.rest = <<>>
       THEN [kind |-> TypeName(ts[1]), text |-> ts]
       ELSE [kind |-> "invalid", text |-> <<>>]

\* a parse that wraps a value that is not an array into a list
ParseJsonResponseCoerces(text) ==
    LET parsed == JsonLoads(StripFences(text)) IN
    IF parsed.kind = "invalid"
    THEN [raised |-> ParsingError("Invalid JSON"), value |-> NoValue]
    ELSE IF parsed.kind # "list"
    THEN [raised |-> NoException,
          value |-> [kind |-> "list",
                     text |-> <<"[">> \o parsed.text \o <<"]">>]]
    ELSE [raised |-> NoException, value |-> parsed]

\* _parse_json_response: the exception it raises, or the list it returns
ParseJsonResponse(text) ==
    LET parsed == JsonLoads(StripFences(text)) IN
    IF parsed.kind = "invalid"
    THEN [raised |-> ParsingError("Invalid JSON"), value |-> NoValue]
    ELSE IF parsed.kind # "list"
    THEN [raised |-> ParsingError("Expected JSON array, got " \o parsed.kind),
          value |-> NoValue]
    ELSE [raised |-> NoException, value |-> parsed]

\* generate_scenarios_json: generate_content raises, "except Exception"
\* turns it into GeminiAPIError
GenerateApiFails ==
    /\ cl_pc = "start"
    /\ api_error # NoException
    /\ api_calls' = api_calls + 1
    /\ cl_raised' = IF IsInstance(api_error, "Exception")
                    THEN GeminiAPIError(api_error.msg)
                    ELSE api_error
    /\ cl_pc' = "raised"
    /\ UNCHANGED <<api_error, response_text, cl_result>>
    /\ UNCHANGED <<scenarios, files, existing, verifier_vars, video_vars,
                   scorer_vars, generator_vars, judgment_vars, cli_vars,
                   wizard_vars>>

\* generate_scenarios_json: the response has no text
GenerateEmptyBody ==
    /\ cl_pc = "start"
    /\ api_error = NoException
    /\ response_text = <<>>
    /\ api_calls' = api_calls + 1
    /\ cl_raised' = ParsingError("Empty response body from Gemini API.")
    /\ cl_pc' = "raised"
    /\ UNCHANGED <<api_error, response_text, cl_result>>
    /\ UNCHANGED <<scenarios, files, existing, verifier_vars, video_vars,
                   scorer_vars, generator_vars, judgment_vars, cli_vars,
                   wizard_vars>>

\* generate_scenarios_json: _parse_json_response raises
GenerateParseFails ==
    /\ cl_pc = "start"
    /\ api_error = NoException
    /\ response_text # <<>>
    /\ ParseJsonResponse(response_text).raised # NoException
    /\ api_calls' = api_calls + 1
    /\ cl_raised' = ParseJsonResponse(response_text).raised
    /\ cl_pc' = "raised"
    /\ UNCHANGED <<api_error, response_text, cl_result>>
    /\ UNCHANGED <<scenarios, files, existing, verifier_vars, video_vars,
                   scorer_vars, generator_vars, judgment_vars, cli_vars,
                   wizard_vars>>

\* generate_scenarios_json: returns the parsed list
GenerateReturns ==
    /\ cl_pc = "start"
    /\ api_error = NoException
    /\ response_text # <<>>
    /\ ParseJsonResponse(response_text).raised = NoException
    /\ api_calls' = api_calls + 1
    /\ cl_result' = ParseJsonResponse(response_text).value
    /\ cl_pc' = "returned"
    /\ UNCHANGED <<api_error, response_text, cl_raised>>
    /\ UNCHANGED <<scenarios, files, existing, verifier_vars, video_vars,
                   scorer_vars, generator_vars, judgment_vars, cli_vars,
                   wizard_vars>>

InitClient ==
    /\ \/ /\ api_error \in RemoteExceptions
          /\ response_text = <<>>
       \/ /\ api_error = NoException
          /\ response_text \in ResponseTexts
    /\ cl_pc = "start"
    /\ api_calls = 0
    /\ cl_result = NoValue
    /\ cl_raised = NoException
    /\ InitPipelineIdle
    /\ InitScorerVars
    /\ InitGeneratorVars
    /\ InitJudgmentVars
    /\ InitCliVars
    /\ InitWizardVars

NextClient ==
    \/ GenerateApiFails
    \/ GenerateEmptyBody
    \/ GenerateParseFails
    \/ GenerateReturns

SpecClient == InitClient /\ [][NextClient]_vars

\* the response text without its fences parses to a top-level JSON array
ParsesToArray == JsonLoads(StripFences(response_text)).kind = "list"

\* C20: generate_scenarios_json makes one API call; it returns a value only
\* when the API call succeeded and the fence-stripped response parses to a
\* top-level JSON array, and the value is that list; an empty body, invalid
\* JSON or a top-level object, string, number or null raises ParsingError
\* and returns nothing; a failing API call raises GeminiAPIError wrapping
\* the cause after that one call.
C20_StrictArrayContract ==
    /\ api_calls = (IF cl_pc = "start" THEN 0 ELSE 1)
    /\ cl_pc = "returned" =>
          /\ api_error = NoException
          /\ cl_raised = NoException
          /\ ParsesToArray
          /\ cl_result.kind = "list"
          /\ cl_result.text = Lex(StripFences(response_text))
    /\ cl_pc = "raised" =>
          /\ cl_result = NoValue
          /\ IF api_error # NoException
             THEN cl_raised = [type |-> "GeminiAPIError",
                               msg |-> "Gemini API error: " \o api_error.msg]
             ELSE cl_raised.type = "ParsingError"
    /\ (cl_pc # "start" /\ api_error = NoException /\ ~ParsesToArray) =>
          /\ cl_pc = "raised"
          /\ cl_raised.type = "ParsingError"
    /\ (/\ cl_pc # "start"
        /\ api_error = NoException
        /\ response_text \in
              { <<>>, <<"{}">>, <<"\"s\"">>, <<"-1">>, <<"null">>, <<"x">>,
                <<"[">>, <<"[", "{}">>, <<" ", "\n">>,
                <<FENCE, "json", "\n", "{}", "\n", FENCE>>,
                <<FENCE, "\n", "null", "\n", FENCE>>,
                <<FENCE, "json", "\n", "\n", FENCE>> }) =>
          /\ cl_pc = "raised"
          /\ cl_raised.type = "ParsingError"
    /\ (/\ cl_pc # "start"
        /\ api_error = NoException
        /\ response_text \in
              { <<"[", "]">>, <<"[", "{}", "]">>, <<" ", "[", "]", "\n">>,
                <<FENCE, "json", "\n", "[", "{}", "]", "\n", FENCE>>,
                <<FENCE, "\n", "[", "]">> }) =>
          /\ cl_pc = "returned"
          /\ cl_result.kind = "list"

\* C20 witness: a fenced array was returned after one call
C20_Witness ==
    /\ cl_pc = "returned"
    /\ api_calls = 1
    /\ response_text = <<FENCE, "json", "\n", "[", "{}", "]", "\n", FENCE>>
    /\ cl_result = [kind |-> "list", text |-> <<"[", "{}", "]">>]

\* the opening fence lines
OpeningFences == { <<FENCE, "\n">>, <<FENCE, "json", "\n">> }

\* the closing fence line
ClosingFence == <<"\n", FENCE>>

\* the response text is an opening fence line, a text, a closing fence line
IsFenced ==
    /\ \E p \in OpeningFences :
          /\ Len(response_text) >= Len(p) + Len(ClosingFence)
          /\ SubSeq(response_text, 1, Len(p)) = p
    /\ SubSeq(response_text, Len(response_text) - 1, Len(response_text))
           = ClosingFence

\* the text between the fence lines of a fenced response text
Unfenced ==
    LET p == CHOOSE p \in OpeningFences :
                 /\ Len(response_text) >= Len(p) + Len(ClosingFence)
                 /\ SubSeq(response_text, 1, Len(p)) = p
    IN SubSeq(response_text, Len(p) + 1, Len(response_text) - 2)

\* C21: when the response is a JSON array text T between an opening fence
\* line (with or without "json") and a closing fence line, the call returns
\* the list that _parse_json_response returns for T alone.
C21_FencedParsesAsUnfenced ==
    (/\ cl_pc # "start"
     /\ api_error = NoException
     /\ IsFenced
     /\ JsonLoads(Unfenced).kind = "list") =>
        /\ cl_pc = "returned"
        /\ ParseJsonResponse(Unfenced).raised = NoException
        /\ cl_result = ParseJsonResponse(Unfenced).value
        /\ cl_result.text = Lex(Unfenced)

\* C21 witness: a fenced array over two lines was parsed
C21_Witness ==
    /\ cl_pc = "returned"
    /\ IsFenced
    /\ Unfenced = <<"[", "\n", "]">>
    /\ cl_result = [kind |-> "list", text |-> <<"[", "]">>]

(* ===================== _parse_verification_response ==================== *)

\* number of white-space characters around an answer
MaxPad == 1

\* the words a judgment may give as its answer, in several casings
AnswerWords ==
    { YES, <<"Y", "e", "s">>, <<"Y", "E", "S">>,
      NO, <<"N", "o">>, <<"N", "O">>,
      UNDET, <<"U", "n", "d", "e", "t", "e", "r", "m", "i", "n", "e", "d">>,
      <<"m", "a", "y", "b", "e">>, <<"y", "e", "s", "!">>,
      <<"y", " ", "e", "s">>, <<>> }

\* runs of white space
Pads == UNION { [1..n -> {" ", "\n"}] : n \in 0..MaxPad }

\* the answer values of a JSON object: a string, an absent key, or null
JudgmentAnswers ==
    { [t |-> "str", s |-> l \o w \o r] :
        l \in Pads, w \in AnswerWords, r \in Pads }
    \cup { [t |-> "missing", s |-> <<>>], [t |-> "null", s |-> <<>>] }

\* the responses _parse_verification_response may be given, by what
\* json.loads makes of them
JudgmentResponses ==
    { [kind |-> k, answer |-> [t |-> "missing", s |-> <<>>]] :
        k \in {"invalid", "array"} }
    \cup { [kind |-> "object", answer |-> a] : a \in JudgmentAnswers }

\* _parse_verification_response returns (answer, reasoning)
JudgmentReturns ==
    /\ jr_pc = "start"
    /\ ParseVerificationResponse(jr_response).ok
    /\ jr_answer' = ParseVerificationResponse(jr_response).answer
    /\ jr_pc' = "returned"
    /\ UNCHANGED <<jr_response, jr_raised>>
    /\ UNCHANGED <<scenarios, files, existing, verifier_vars, video_vars,
                   scorer_vars, generator_vars, client_vars, cli_vars,
                   wizard_vars>>

\* _parse_verification_response raises
JudgmentRaises ==
    /\ jr_pc = "start"
    /\ ~ParseVerificationResponse(jr_response).ok
    /\ jr_raised' = ParseVerificationResponse(jr_response).exc
    /\ jr_pc' = "raised"
    /\ UNCHANGED <<jr_response, jr_answer>>
    /\ UNCHANGED <<scenarios, files, existing, verifier_vars, video_vars,
                   scorer_vars, generator_vars, client_vars, cli_vars,
                   wizard_vars>>

InitJudgment ==
    /\ jr_response \in JudgmentResponses
    /\ jr_pc = "start"
    /\ jr_answer = <<>>
    /\ jr_raised = NoException
    /\ InitPipelineIdle
    /\ InitScorerVars
    /\ InitGeneratorVars
    /\ InitClientVars
    /\ InitCliVars
    /\ InitWizardVars

NextJudgment ==
    \/ JudgmentReturns
    \/ JudgmentRaises

SpecJudgment == InitJudgment /\ [][NextJudgment]_vars

\* the answer value, lowercased and stripped, is one of the three allowed
AllowedAnswer(a) ==
    /\ a.t = "str"
    /\ \E w \in {YES, NO, UNDET} :
          \E l \in Pads, r \in Pads : Lower(a.s) = l \o w \o r

\* C22: for a judgment response that is a JSON object, an answer value that
\* is not one of yes, no, undetermined makes _parse_verification_response
\* return "undetermined" and raise nothing; every answer it returns is one
\* of yes, no, undetermined.
C22_OtherAnswerCoerced ==
    /\ (/\ jr_pc # "start"
        /\ jr_response.kind = "object"
        /\ ~AllowedAnswer(jr_response.answer)) =>
           /\ jr_pc = "returned"
           /\ jr_answer = UNDET
           /\ jr_raised = NoException
    /\ jr_pc = "returned" => jr_answer \in {YES, NO, UNDET}

\* number of results that report a video
Successful ==
    Cardinality({ k \in 1..Len(video_results) :
                    video_results[k].video_path # "" })

\* C23: when generate_from_dataset has returned, the final summary was
\* printed with the number of successes and the number of scenarios,
\* whatever the outcome of the run.
C23_SummaryAlwaysPrinted ==
    vg_pc = "done" =>
        /\ summary.printed
        /\ summary.successful = Successful
        /\ summary.total = Len(scenarios)

\* C24: when generate_from_dataset has returned, every result with a
\* non-empty video_path names the file {scenario_id}.mp4 of the output
\* directory and that file exists, so that verify_dataset on the same
\* directory finds it.
C24_ReportedVideoExists ==
    vg_pc = "done" =>
        \A k \in 1..Len(video_results) :
            LET r == video_results[k] IN
            r.video_path # "" =>
                /\ r.video_path = OUTPUT_DIR \o "/" \o r.scenario_id \o ".mp4"
                /\ r.video_path = VideoPath(VIDEOS_DIR, r.scenario_id)
                /\ Exists(r.scenario_id)

\* the scenario ids of the result list, in order
ResultIds == [k \in 1..Len(video_results) |-> video_results[k].scenario_id]

\* no element occurs twice in the sequence
NoDuplicates(seq) == \A j, k \in 1..Len(seq) : seq[j] = seq[k] => j = k

\* C27: no status fetch and no download happens before the launch loop has
\* passed over every scenario, and the sweep of one poll tick fetches every
\* operation that was pending at its start exactly once.
C27_TwoPhasePolling ==
    /\ (get_calls # <<>> \/ download_calls # <<>>) => idx > Len(scenarios)
    /\ NoDuplicates(tick_gets)
    /\ Range(tick_gets) \subseteq tick_open
    /\ (vg_pc = "sweep" /\ p_idx <= Len(pending)) =>
          Range(tick_gets) =
              tick_open \cap { pending[k].scenario_id : k \in 1..(p_idx - 1) }
    /\ (\/ vg_pc = "sweep" /\ p_idx > Len(pending)
        \/ vg_pc \in {"poll", "done"}) =>
          Range(tick_gets) = tick_open

\* C27 witness: two operations were polled over more than one tick
C27_Witness ==
    /\ vg_pc = "done"
    /\ Len(pending) >= 2
    /\ poll_ticks >= 2
    /\ Len(get_calls) > Len(pending)
    /\ Cardinality(tick_open) >= 1

\* C28: when generate_from_dataset has returned, every scenario with a
\* non-empty video_prompt appears exactly once in the result list, whatever
\* its outcome; a scenario with an empty video_prompt never appears in it
\* and is never launched.
C28_OneResultPerPromptedScenario ==
    /\ \A i \in 1..Len(scenarios) :
          ~Truthy(scenarios[i].video_prompt) =>
              /\ Count(ResultIds, scenarios[i].scenario_id) = 0
              /\ Count(launch_calls, scenarios[i].scenario_id) = 0
    /\ vg_pc = "done" =>
          /\ \A i \in 1..Len(scenarios) :
                Truthy(scenarios[i].video_prompt) =>
                    Count(ResultIds, scenarios[i].scenario_id) = 1
          /\ Range(ResultIds) \subseteq
                { scenarios[i].scenario_id : i \in 1..Len(scenarios) }

\* C28 witness: a returned run with a scenario without prompt, a failed
\* launch and a polled operation
C28_Witness ==
    /\ vg_pc = "done"
    /\ \E i \in 1..Len(scenarios) : ~Truthy(scenarios[i].video_prompt)
    /\ launch_failed # {}
    /\ pending # <<>>
    /\ Len(video_results) = 2

\* C29: each scenario gets at most one launch request and each operation at
\* most one download; an operation that is done stays done and is neither
\* fetched nor downloaded again.
C29_NoRetries ==
    [][ /\ NoDuplicates(launch_calls')
        /\ NoDuplicates(download_calls')
        /\ Len(pending') >= Len(pending)
        /\ \A k \in 1..Len(pending) :
              pending[k].done =>
                  /\ pending'[k].done
                  /\ Count(get_calls', pending[k].scenario_id) =
                         Count(get_calls, pending[k].scenario_id)
                  /\ Count(download_calls', pending[k].scenario_id) =
                         Count(download_calls, pending[k].scenario_id) ]_vars

\* C29 witness: an operation fetched in two ticks and downloaded, returned
\* together with an operation whose fetch failed in the first tick
C29_Witness ==
    /\ vg_pc = "done"
    /\ download_calls # <<>>
    /\ fetch_raised # {}
    /\ \E k \in 1..Len(pending) :
          Count(get_calls, pending[k].scenario_id) >= 2

\* C26: in _verify_single the judgment request is sent only when the state
\* observed for the uploaded file is ACTIVE; a wait that ends in any other
\* state raises VerificationError without a judgment request; and a status
\* fetch happens only for a scenario whose upload was made.
C26_JudgeOnlyWhenActive ==
    [][ /\ judge_requests' # judge_requests =>
              /\ judge_requests' = judge_requests + 1
              /\ v_pc = "wait"
              /\ state_name = "ACTIVE"
              /\ video_file.state = "ACTIVE"
              /\ v_idx \in attempted
        /\ (v_pc = "wait" /\ state_name \notin {"PROCESSING", "ACTIVE"}) =>
              /\ judge_requests' = judge_requests
              /\ v_idx \in failed'
              /\ v_error' = "state"
              /\ v_pc' = "loop"
              /\ v_raised' = v_raised
              /\ verify_results' = verify_results
        /\ v_polls' > v_polls =>
              /\ v_idx \in attempted
              /\ uploads >= 1
              /\ uploads' = uploads ]_vars

\* C26 witness: one scenario was judged after a status fetch, and the wait
\* of another one ended in a state other than ACTIVE
C26_Witness ==
    /\ judge_requests >= 1
    /\ verify_results # <<>>
    /\ v_error = "state"
    /\ v_polls >= 1

(* ================================ cli.py =============================== *)

\* the pipeline commands
Commands == {"generate", "videos", "verify"}

\* what a command may find before it starts its pipeline
CliEnvs ==
    [config_found : BOOLEAN, dataset_exists : BOOLEAN,
     videos_dir_exists : BOOLEAN]

\* exceptions the pipeline of a command may raise inside the try block: the
\* domain errors, and exceptions outside the WorldRewardError hierarchy
CliExceptions ==
    { [type |-> "WorldRewardError", msg |-> "boom"],
      ConfigLoadError(CONFIG_PATH, "File not found"),
      GeminiAPIError("No API key provided."),
      ParsingError("Empty response body from Gemini API."),
      DatasetGenerationError("driving", "boom"),
      VideoGenerationError(ScenarioId(1), "boom"),
      VerificationError(ScenarioId(1), "boom"),
      [type |-> "AttributeError",
       msg |-> "'str' object has no attribute 'get'"],
      [type |-> "KeyboardInterrupt", msg |-> ""] }

\* a printed line
Line(kind, text) == [kind |-> kind, text |-> text]

\* the check a command makes before its banner: the message it prints when
\* the check fails, None when it passes
CliPrecheck(cmd, env) ==
    IF cmd = "generate"
    THEN IF ~env.config_found THEN "Error: Domain not found." ELSE None
    ELSE IF ~env.dataset_exists THEN "Error: Dataset not found"
    ELSE IF cmd = "verify" /\ ~env.videos_dir_exists
    THEN "Error: Videos directory not found"
    ELSE None

\* the check fails: the message is printed and the command returns
CliPrecheckFails ==
    /\ cli_pc = "start"
    /\ CliPrecheck(cli_cmd, cli_env) # None
    /\ cli_out' = Append(cli_out, Line("error", CliPrecheck(cli_cmd, cli_env)))
    /\ cli_pc' = "returned"
    /\ UNCHANGED <<cli_cmd, cli_env, cli_raised, cli_escaped, cli_results_file>>
    /\ UNCHANGED <<scenarios, files, existing, verifier_vars, video_vars,
                   scorer_vars, generator_vars, client_vars, judgment_vars,
                   wizard_vars>>

\* the check passes: the banner is printed
CliBanner ==
    /\ cli_pc = "start"
    /\ CliPrecheck(cli_cmd, cli_env) = None
    /\ cli_out' = Append(cli_out, Line("banner", cli_cmd))
    /\ cli_pc' = "try"
    /\ UNCHANGED <<cli_cmd, cli_env, cli_raised, cli_escaped, cli_results_file>>
    /\ UNCHANGED <<scenarios, files, existing, verifier_vars, video_vars,
                   scorer_vars, generator_vars, client_vars, judgment_vars,
                   wizard_vars>>

\* an "except" clause that catches the API errors only
CliExceptApiOnly(exc) ==
    IF IsInstance(exc, "GeminiAPIError")
    THEN /\ cli_out' = Append(cli_out, Line("error", "Error: " \o exc.msg))
         /\ cli_pc' = "returned"
         /\ UNCHANGED cli_escaped
    ELSE /\ cli_pc' = "escaped"
         /\ cli_escaped' = exc
         /\ UNCHANGED cli_out

\* "except WorldRewardError as e: print(f"Error: {e}"); return"
CliExcept(exc) ==
    IF IsInstance(exc, "WorldRewardError")
    THEN /\ cli_out' = Append(cli_out, Line("error", "Error: " \o exc.msg))
         /\ cli_pc' = "returned"
         /\ UNCHANGED cli_escaped
    ELSE /\ cli_pc' = "escaped"
         /\ cli_escaped' = exc
         /\ UNCHANGED cli_out

\* the pipeline raises inside the try block
CliPipelineRaises ==
    /\ cli_pc = "try"
    /\ \E exc \in CliExceptions :
          /\ cli_raised' = exc
          /\ CliExcept(exc)
    /\ UNCHANGED <<cli_cmd, cli_env, cli_results_file>>
    /\ UNCHANGED <<scenarios, files, existing, verifier_vars, video_vars,
                   scorer_vars, generator_vars, client_vars, judgment_vars,
                   wizard_vars>>

\* the pipeline returns: run_generate and run_videos print their "Done!"
\* line; run_verify writes the results file when there are results and
\* prints the score report
CliPipelineReturns ==
    /\ cli_pc = "try"
    /\ IF cli_cmd = "verify"
       THEN \E has_results \in BOOLEAN :
               /\ cli_results_file' = has_results
               /\ cli_out' = IF has_results
                             THEN cli_out \o <<Line("saved", "Results saved"),
                                               Line("report", "score report")>>
                             ELSE Append(cli_out, Line("report", "score report"))
       ELSE /\ cli_out' = Append(cli_out, Line("done", "Done!"))
            /\ UNCHANGED cli_results_file
    /\ cli_pc' = "returned"
    /\ UNCHANGED <<cli_cmd, cli_env, cli_raised, cli_escaped>>
    /\ UNCHANGED <<scenarios, files, existing, verifier_vars, video_vars,
                   scorer_vars, generator_vars, client_vars, judgment_vars,
                   wizard_vars>>

InitCli ==
    /\ cli_cmd \in Commands
    /\ cli_env \in CliEnvs
    /\ cli_pc = "start"
    /\ cli_out = <<>>
    /\ cli_raised = NoException
    /\ cli_escaped = NoException
    /\ cli_results_file = FALSE
    /\ InitPipelineIdle
    /\ InitScorerVars
    /\ InitGeneratorVars
    /\ InitClientVars
    /\ InitJudgmentVars
    /\ InitWizardVars

NextCli ==
    \/ CliPrecheckFails
    \/ CliBanner
    \/ CliPipelineRaises
    \/ CliPipelineReturns

SpecCli == InitCli /\ [][NextCli]_vars

\* C25: a WorldRewardError raised by the pipeline of run_generate,
\* run_videos or run_verify never leaves the command: the command returns,
\* its last line is "Error: " followed by the message, and it printed no
\* "Done!" line, no score report and wrote no results file.
C25_DomainErrorsReported ==
    /\ ~IsInstance(cli_escaped, "WorldRewardError")
    /\ IsInstance(cli_raised, "WorldRewardError") =>
          /\ cli_pc = "returned"
          /\ cli_escaped = NoException
          /\ cli_out[Len(cli_out)] = Line("error", "Error: " \o cli_raised.msg)
          /\ \A k \in 1..Len(cli_out) :
                cli_out[k].kind \notin {"done", "saved", "report"}
          /\ ~cli_results_file

\* C25 witness: run_verify returned after its pipeline raised a
\* VerificationError
C25_Witness ==
    /\ cli_cmd = "verify"
    /\ cli_raised.type = "VerificationError"
    /\ cli_pc = "returned"

(* ============================ setup_wizard.py ========================== *)

\* largest max_attempts argument
MaxAttempts == 2

\* texts a key may be given as: empty, blank, a key, a key with blanks
KeyTexts == { <<>>, <<" ">>, <<"k">>, <<" ", "k", " ">>, <<"b">> }

\* the api_key argument: None or a text
ApiKeyArguments == {Null} \cup { Str(t) : t \in KeyTexts }

\* provided_key = api_key.strip() if api_key else None
ProvidedKey(api_key) ==
    IF api_key.t = "str" /\ api_key.v # <<>>
    THEN Str(Strip(api_key.v))
    ELSE Null

\* exceptions of the prompt that cancel the setup
PromptCancels == {"EOFError", "KeyboardInterrupt"}

\* top of the loop, first attempt with a key argument: it is the candidate
WizardUseProvided ==
    /\ w_pc = "loop"
    /\ w_attempt <= w_max_attempts
    /\ ProvidedKey(w_api_key) # Null /\ w_attempt = 1
    /\ w_candidate' = ProvidedKey(w_api_key).v
    /\ w_pc' = "check"
    /\ UNCHANGED <<w_api_key, w_max_attempts, w_attempt, w_prompts,
                   w_validated, w_saved, w_return>>
    /\ UNCHANGED <<scenarios, files, existing, verifier_vars, video_vars,
                   scorer_vars, generator_vars, client_vars, judgment_vars,
                   cli_vars>>

\* top of the loop otherwise: the key is prompted for; EOFError and
\* KeyboardInterrupt cancel the setup
WizardPrompt ==
    /\ w_pc = "loop"
    /\ w_attempt <= w_max_attempts
    /\ ~(ProvidedKey(w_api_key) # Null /\ w_attempt = 1)
    /\ w_prompts' = w_prompts + 1
    /\ \/ \E exc \in PromptCancels :
             /\ w_return' = "False"
             /\ w_pc' = "done"
             /\ UNCHANGED w_candidate
       \/ \E text \in KeyTexts :
             /\ w_candidate' = Strip(text)
             /\ w_pc' = "check"
             /\ UNCHANGED w_return
    /\ UNCHANGED <<w_api_key, w_max_attempts, w_attempt, w_validated, w_saved>>
    /\ UNCHANGED <<scenarios, files, existing, verifier_vars, video_vars,
                   scorer_vars, generator_vars, client_vars, judgment_vars,
                   cli_vars>>

\* "if not candidate_key: ... continue"
WizardEmptyKey ==
    /\ w_pc = "check"
    /\ w_candidate = <<>>
    /\ w_attempt' = w_attempt + 1
    /\ w_pc' = "loop"
    /\ UNCHANGED <<w_api_key, w_max_attempts, w_candidate, w_prompts,
                   w_validated, w_saved, w_return>>
    /\ UNCHANGED <<scenarios, files, existing, verifier_vars, video_vars,
                   scorer_vars, generator_vars, client_vars, judgment_vars,
                   cli_vars>>

\* a validation whose failure always goes on with the next attempt
WizardValidateKeepsPrompting ==
    /\ w_pc = "check"
    /\ w_candidate # <<>>
    /\ \E ok \in BOOLEAN :
          /\ w_validated' = Append(w_validated,
                 [key |-> w_candidate, ok |-> ok, attempt |-> w_attempt])
          /\ IF ok
             THEN /\ w_saved' = Append(w_saved, Strip(w_candidate))
                  /\ w_return' = "True"
                  /\ w_pc' = "done"
                  /\ UNCHANGED w_attempt
             ELSE /\ w_attempt' = w_attempt + 1
                  /\ w_pc' = "loop"
                  /\ UNCHANGED <<w_saved, w_return>>
    /\ UNCHANGED <<w_api_key, w_max_attempts, w_candidate, w_prompts>>
    /\ UNCHANGED <<scenarios, files, existing, verifier_vars, video_vars,
                   scorer_vars, generator_vars, client_vars, judgment_vars,
                   cli_vars>>

\* the validator is called on the candidate: an accepted key is saved and
\* True returned; a rejected one ends the setup when a key argument was
\* given, and goes on with the next attempt otherwise
WizardValidate ==
    /\ w_pc = "check"
    /\ w_candidate # <<>>
    /\ \E ok \in BOOLEAN :
          /\ w_validated' = Append(w_validated,
                 [key |-> w_candidate, ok |-> ok, attempt |-> w_attempt])
          /\ IF ok
             THEN /\ w_saved' = Append(w_saved, Strip(w_candidate))
                  /\ w_return' = "True"
                  /\ w_pc' = "done"
                  /\ UNCHANGED w_attempt
             ELSE IF ProvidedKey(w_api_key) # Null
             THEN /\ w_return' = "False"
                  /\ w_pc' = "done"
                  /\ UNCHANGED <<w_saved, w_attempt>>
             ELSE /\ w_attempt' = w_attempt + 1
                  /\ w_pc' = "loop"
                  /\ UNCHANGED <<w_saved, w_return>>
    /\ UNCHANGED <<w_api_key, w_max_attempts, w_candidate, w_prompts>>
    /\ UNCHANGED <<scenarios, files, existing, verifier_vars, video_vars,
                   scorer_vars, generator_vars, client_vars, judgment_vars,
                   cli_vars>>

\* the loop is exhausted: "Setup aborted", return False
WizardAbort ==
    /\ w_pc = "loop"
    /\ w_attempt > w_max_attempts
    /\ w_return' = "False"
    /\ w_pc' = "done"
    /\ UNCHANGED <<w_api_key, w_max_attempts, w_attempt, w_candidate,
                   w_prompts, w_validated, w_saved>>
    /\ UNCHANGED <<scenarios, files, existing, verifier_vars, video_vars,
                   scorer_vars, generator_vars, client_vars, judgment_vars,
                   cli_vars>>

InitWizard ==
    /\ w_api_key \in ApiKeyArguments
    /\ w_max_attempts \in 0..MaxAttempts
    /\ w_pc = "loop"
    /\ w_attempt = 1
    /\ w_candidate = <<>>
    /\ w_prompts = 0
    /\ w_validated = <<>>
    /\ w_saved = <<>>
    /\ w_return = None
    /\ InitPipelineIdle
    /\ InitScorerVars
    /\ InitGeneratorVars
    /\ InitClientVars
    /\ InitJudgmentVars
    /\ InitCliVars

NextWizard ==
    \/ WizardUseProvided
    \/ WizardPrompt
    \/ WizardEmptyKey
    \/ WizardValidate
    \/ WizardAbort

SpecWizard == InitWizard /\ [][NextWizard]_vars

\* C30: run_setup_wizard hands at most one key to save_api_key, and only
\* the candidate the validator has just accepted; it returns True exactly
\* when a key was saved; it makes at most max_attempts attempts and then
\* returns False; and when the validator rejects the key given as argument
\* it returns False without having prompted.
C30_WizardSavesAcceptedKeyOnce ==
    /\ Len(w_saved) <= 1
    /\ w_saved # <<>> =>
          /\ w_validated[Len(w_validated)].ok
          /\ w_validated[Len(w_validated)].key = w_saved[1]
          /\ \A j \in 1..(Len(w_validated) - 1) : ~w_validated[j].ok
    /\ (w_return = "True") <=> (w_saved # <<>>)
    /\ (w_pc = "done") <=> (w_return \in {"True", "False"})
    /\ w_attempt <= w_max_attempts + 1
    /\ Len(w_validated) <= w_max_attempts
    /\ w_prompts <= w_max_attempts
    /\ (w_pc = "loop" /\ w_attempt > w_max_attempts) => w_saved = <<>>
    /\ \A j \in 1..Len(w_validated) :
          (/\ ProvidedKey(w_api_key) # Null
           /\ w_validated[j].attempt = 1
           /\ ~w_validated[j].ok) =>
              /\ w_pc = "done"
              /\ w_return = "False"
              /\ w_prompts = 0

\* C30 witness: a prompted key was saved after the validator had rejected
\* an earlier one
C30_Witness ==
    /\ w_pc = "done"
    /\ w_return = "True"
    /\ Len(w_validated) >= 2
    /\ w_prompts >= 2

\* C30 witness of the argument case: the key given as argument was rejected
C30_WitnessArgument ==
    /\ w_pc = "done"
    /\ ProvidedKey(w_api_key) # Null
    /\ Len(w_validated) = 1
    /\ ~w_validated[1].ok

====
